---------------------------- MODULE Spec2Model ----------------------------
(***************************************************************************)
(* LatestVersionManager: the promotion engine (src/src/lvm/promoter.py)    *)
(* and its history store (src/src/lvm/history.py, src/src/lvm/models.py).  *)
(*                                                                         *)
(* The files of one promotion target are the state: the history record at  *)
(* its final path, its temporary and backup siblings, and the entries of   *)
(* the target directory.  One caller runs record_promotion / promote step  *)
(* by step; a second process may load() the record at any time.            *)
(***************************************************************************)
EXTENDS Integers, Sequences, FiniteSets, TLC

VARIABLES
    fs,          \* the three history paths: "final", "tmp", "bak" -> file
    pc,          \* position of the caller inside record_promotion / promote
    exc,         \* the exception that reached the caller ("none": none)
    h_entry,     \* record_promotion's argument `entry`
    h_data,      \* save(): the serialised `data` json.dump is writing
    clock,       \* datetime.now(), in seconds
    calls,       \* calls started so far
    rd_seen,     \* what the concurrent reader's last load() returned
    prev_file,   \* history: the final path's file when save() was entered
    hist_before, \* history: the record load() returned to record_promotion
    renamed,     \* history: save() has executed its rename
    cfg,         \* promote(): the WatchedSource, the version, the callback
    target,      \* the entries of the target directory, by name
    tdir,        \* the target directory exists
    locked,      \* target names whose open-for-append probe fails
    src_bad,     \* source files whose copy or link fails
    why,         \* the message of the PromotionError raised
    todo,        \* _clear_target: the names still to unlink
    xfer,        \* the transfer: next file, busy workers, `completed`
    cb,          \* the progress_callback invocations seen by the caller
    ghost,       \* history: the state at the call, failures of the transfer
    arg,         \* the arguments of the read-only call being made
    ret,         \* what that call returned, or the exception it raised
    tree,        \* what a call is given to read: the entries of a
                 \* directory, the bytes of a timeCode attribute, a
                 \* filename with the task tokens
    gui          \* the MainWindow: its batch list and index, its worker

histVars == <<fs, h_entry, h_data, rd_seen, prev_file, hist_before, renamed>>
promVars == <<cfg, target, tdir, locked, src_bad, why, todo, xfer, cb, ghost>>
callVars == <<arg, ret, tree, gui>>
vars == <<fs, pc, exc, h_entry, h_data, clock, calls, rd_seen, prev_file,
          hist_before, renamed, cfg, target, tdir, locked, src_bad, why,
          todo, xfer, cb, ghost, arg, ret, tree, gui>>

---------------------------------------------------------------------------
(* Bounds of the model *)

\* record_promotion calls in one behaviour of SpecHist
MaxCalls == 2

---------------------------------------------------------------------------
(* HistoryEntry and its dict form (models.py) *)

MAX_HISTORY_ENTRIES == 100

\* Optional[str] = None
None == "None"
\* Optional[float] = None, for the two mtime fields
NoMtime == -1

\* HistoryEntry(...): the dataclass constructor
HistoryEntry(v, src, by, at, fr, fc, n, tc, smt, tmt) ==
    [version |-> v, source |-> src, set_by |-> by, set_at |-> at,
     frame_range |-> fr, frame_count |-> fc, file_count |-> n,
     start_timecode |-> tc, source_mtime |-> smt, target_mtime |-> tmt]

\* the mtime keys are written only when set
to_dict(e) ==
    LET d == [version |-> e.version, source |-> e.source,
              set_by |-> e.set_by, set_at |-> e.set_at,
              frame_range |-> e.frame_range, frame_count |-> e.frame_count,
              file_count |-> e.file_count,
              start_timecode |-> e.start_timecode]
        d1 == IF e.source_mtime # NoMtime
              THEN d @@ [source_mtime |-> e.source_mtime] ELSE d
    IN  IF e.target_mtime # NoMtime
        THEN d1 @@ [target_mtime |-> e.target_mtime] ELSE d1

\* dict.get(key, default)
Get(d, key, default) == IF key \in DOMAIN d THEN d[key] ELSE default

\* data["version"] and data["source"] raise KeyError when missing
HasRequiredKeys(d) == {"version", "source"} \subseteq DOMAIN d

\* a variant of from_dict that forgets the recorded file_count
from_dict_no_count(d) ==
    HistoryEntry(d["version"], d["source"], Get(d, "set_by", "unknown"),
                 Get(d, "set_at", 0), Get(d, "frame_range", None),
                 Get(d, "frame_count", 0), 0,
                 Get(d, "start_timecode", None),
                 Get(d, "source_mtime", NoMtime),
                 Get(d, "target_mtime", NoMtime))

from_dict(d) ==
    HistoryEntry(d["version"], d["source"], Get(d, "set_by", "unknown"),
                 Get(d, "set_at", 0), Get(d, "frame_range", None),
                 Get(d, "frame_count", 0), Get(d, "file_count", 0),
                 Get(d, "start_timecode", None),
                 Get(d, "source_mtime", NoMtime),
                 Get(d, "target_mtime", NoMtime))

---------------------------------------------------------------------------
(* The record file: a sequence of JSON tokens, so that a file can hold a  *)
(* prefix of a record.                                                     *)

TokOpen == [t |-> "{"]
TokClose == [t |-> "}"]
TokCurrent(d) == [t |-> "current", d |-> d]
TokItem(d) == [t |-> "item", d |-> d]
\* a history item that is no JSON object, e.g. {"history": [5]}
TokScalarItem == [t |-> "scalar_item"]
\* a file holding valid JSON that is no object, e.g. []
TokArray == [t |-> "array"]
\* a file holding bytes that are no UTF-8
TokBadUtf8 == [t |-> "bad_utf8"]

Absent == [exists |-> FALSE, data |-> <<>>]
File(data) == [exists |-> TRUE, data |-> data]

\* json.dump(data, f): {"current": ..., "history": [...]}
json_dump(current, history) ==
    <<TokOpen, TokCurrent(current)>>
        \o [i \in 1..Len(history) |-> TokItem(history[i])]
        \o <<TokClose>>

IsObjectText(data) ==
    /\ Len(data) >= 2
    /\ data[1] = TokOpen
    /\ data[Len(data)] = TokClose
    /\ \A i \in 2..(Len(data) - 1) :
          /\ data[i].t \in {"current", "item", "scalar_item"}
          /\ data[i].t = "current" => i = 2

\* json.load(f) under open(..., encoding="utf-8"): what it returns or raises
json_load(data) ==
    IF data # <<>> /\ data[1] = TokBadUtf8 THEN "UnicodeDecodeError"
    ELSE IF data = <<TokArray>> THEN "array"
    ELSE IF IsObjectText(data) THEN "object"
    ELSE "JSONDecodeError"

NoEntry == [none |-> TRUE]
EmptyRecord == [current |-> NoEntry, history |-> <<>>]

CurrentOf(data) ==
    IF Len(data) >= 2 /\ data[2].t = "current"
    THEN from_dict(data[2].d) ELSE NoEntry

ItemsOf(data) ==
    LET first == IF Len(data) >= 2 /\ data[2].t = "current" THEN 3 ELSE 2
    IN  SubSeq(data, first, Len(data) - 1)

\* the exception HistoryEntry.from_dict raises on the object, or "none"
FromDictError(data) ==
    IF \E i \in 2..(Len(data) - 1) : data[i].t = "scalar_item"
    THEN "TypeError"
    ELSE IF \E i \in 2..(Len(data) - 1) : ~HasRequiredKeys(data[i].d)
    THEN "KeyError"
    ELSE "none"

\* HistoryManager.load on file f: the exception that escapes ("none": none),
\* whether the corrupt file was renamed to .bak, and the record returned
load(f) ==
    IF ~f.exists
    THEN [exc |-> "none", backup |-> FALSE, rec |-> EmptyRecord]
    ELSE LET k == json_load(f.data) IN
         IF k = "UnicodeDecodeError"
         THEN [exc |-> "UnicodeDecodeError", backup |-> FALSE,
               rec |-> EmptyRecord]
         ELSE IF k = "array"
         THEN [exc |-> "AttributeError", backup |-> FALSE,
               rec |-> EmptyRecord]
         ELSE IF k = "JSONDecodeError" \/ FromDictError(f.data) # "none"
         THEN [exc |-> "none", backup |-> TRUE, rec |-> EmptyRecord]
         ELSE LET items == ItemsOf(f.data) IN
              [exc |-> "none", backup |-> FALSE,
               rec |-> [current |-> CurrentOf(f.data),
                        history |-> [i \in 1..Len(items) |->
                                        from_dict(items[i].d)]]]

\* the effect of load() on the three paths: self.path.rename(backup)
FsAfterLoad(files) ==
    IF load(files["final"]).backup
    THEN [files EXCEPT !["bak"] = files["final"], !["final"] = Absent]
    ELSE files

\* record_promotion: history.insert(0, entry)
insert_first(history, entry) == <<entry>> \o history

\* save: no trimming
trim_none(history) == history

\* save: trimmed = history[:MAX_HISTORY_ENTRIES]
trim(history) ==
    SubSeq(history, 1,
           IF Len(history) < MAX_HISTORY_ENTRIES THEN Len(history)
           ELSE MAX_HISTORY_ENTRIES)

\* save: the file is written in place
tmp_path_in_place == "final"

\* save: tmp_path = self.path.with_suffix(".json.tmp")
tmp_path == "tmp"

\* save: data = {"current": current.to_dict(), "history": [...]}
save_data(current, history) ==
    json_dump(to_dict(current),
              [i \in 1..Len(trim(history)) |-> to_dict(trim(history)[i])])

---------------------------------------------------------------------------
(* Records a target can hold before a call *)

\* the entry promote() builds for version v at time t (from_version_info)
SampleEntry(v, t, withMtime) ==
    HistoryEntry(v, "/renders/hero_" \o v, "artist", t,
                 IF withMtime THEN "1001-1002" ELSE None,
                 IF withMtime THEN 2 ELSE 1,
                 IF withMtime THEN 2 ELSE 1,
                 IF withMtime THEN "01:00:00:00" ELSE None,
                 IF withMtime THEN t - 1 ELSE NoMtime,
                 IF withMtime THEN t ELSE NoMtime)

\* the record n earlier promotions left: newest first, at times n, n-1, ..
PastHistory(n) ==
    [i \in 1..n |->
        SampleEntry(IF i % 2 = 0 THEN "v001" ELSE "v002", n + 1 - i,
                    i % 3 # 0)]

PastRecord(n) ==
    File(save_data(PastHistory(n)[1], PastHistory(n)))

\* files that are not a record: cut short, a dict without "source", a
\* history item that is no object, a JSON array, bytes that are no UTF-8
CorruptFiles ==
    { File(<<TokOpen>>),
      File(<<>>),
      File(<<TokOpen, TokCurrent([version |-> "v001"]), TokClose>>),
      File(<<TokOpen, TokScalarItem, TokClose>>),
      File(<<TokArray>>),
      File(<<TokBadUtf8>>) }

HistLengths == {1, MAX_HISTORY_ENTRIES - 1, MAX_HISTORY_ENTRIES}

InitFinalFiles ==
    {Absent} \cup {PastRecord(n) : n \in HistLengths} \cup CorruptFiles

---------------------------------------------------------------------------
(* File names, the version being promoted and the target directory        *)
(* (promoter.py)                                                           *)

\* _COPY_WORKERS
COPY_WORKERS == 4
\* _promote_sequence: parallel copy when total > 10
PARALLEL_OVER == 10

\* a file name: stem, version marker (0: none), frame number (0: none) and
\* extension, as in hero_v003.1001.exr
Name(stem, ver, frame, ext) ==
    [stem |-> stem, ver |-> ver, frame |-> frame, ext |-> ext]

\* self.source.file_extensions, lower case
valid_extensions == {"exr", "mov"}

\* the frames of version `ver`: n files hero_v<ver>.1001.exr, ...
Frames(ver, n) == {Name("hero", ver, 1000 + i, "exr") : i \in 1..n}

\* a file of the directory no configured extension matches
SideFile == Name("notes", 0, 0, "txt")

\* st_mtime of a source file: when the version was rendered
SrcMtime(f) == 20 + f.ver

\* the VersionInfo handed to promote() and what is at its source_path
Version(kind, ver, files) ==
    [kind |-> kind, number |-> ver, files |-> files]

VSmall == Version("dir", 3, Frames(3, 2) \cup {SideFile})
VLarge == Version("dir", 3, Frames(3, PARALLEL_OVER + 1))
VNoMedia == Version("dir", 3, {SideFile})
VSingle == Version("file", 3, {Name("hero", 3, 0, "mov")})
VGone == Version("gone", 3, {})
Versions == {VSmall, VLarge, VNoMedia, VSingle, VGone}

LinkModes == {"copy", "hardlink", "symlink"}
\* file_rename_template: none, or "{source_name}_latest"
Templates == {"", "{source_name}_latest"}

\* the template with its tokens expanded (derive_source_tokens of the
\* sample file name hero_v003.1001.exr gives source_name = hero)
ExpandTemplate(template) ==
    IF template = "{source_name}_latest" THEN "hero_latest" ELSE template

\* _remap_filename: without a template the version marker is stripped;
\* with one, the part before the frame number and extension is replaced
remap(template, f) ==
    IF template = "" THEN Name(f.stem, 0, f.frame, f.ext)
    ELSE Name(ExpandTemplate(template), 0, f.frame, f.ext)

\* sorted(f for f in source_dir.iterdir() if f.is_file() and
\*        f.suffix.lower() in valid_extensions)
MatchingFiles(version) == {f \in version.files : f.ext \in valid_extensions}

NameBefore(f, g) ==
    \/ f.stem # g.stem /\ f.stem = "hero"
    \/ f.stem = g.stem /\ f.ver < g.ver
    \/ f.stem = g.stem /\ f.ver = g.ver /\ f.frame < g.frame

sorted(S) ==
    [i \in 1..Cardinality(S) |->
        CHOOSE f \in S : Cardinality({g \in S : NameBefore(g, f)}) = i - 1]

source_files(version) == sorted(MatchingFiles(version))

\* an entry of the target directory: how it was made, from which file
Entry(kind, f) == [kind |-> kind, src |-> f, mtime |-> SrcMtime(f)]

is_symlink(e) == e.kind = "symlink"

\* the directory an earlier promotion of `files` in `mode` left
LeftBy(template, mode, files) ==
    [n \in {remap(template, f) : f \in files} |->
        Entry(mode, CHOOSE f \in files : remap(template, f) = n)]

NoFiles == [n \in {} |-> Entry("copy", SideFile)]

\* a file somebody put into the target directory by hand
External(f, kind) == [n \in {f} |-> Entry(kind, f)]

\* target directories promote() can find: none yet, an empty one, and the
\* ones left by promoting version 2 (three frames copied; two frames
\* symlinked; one movie file), with a text file or a symlink to one beside
TargetPresets(template) ==
    << [dir |-> FALSE, files |-> NoFiles],
      [dir |-> TRUE, files |-> NoFiles],
      [dir |-> TRUE, files |-> LeftBy(template, "copy", Frames(2, 3))
                                 @@ External(SideFile, "copy")],
      [dir |-> TRUE, files |-> LeftBy(template, "symlink", Frames(2, 2))
                                 @@ External(SideFile, "symlink")],
      [dir |-> TRUE, files |-> LeftBy(template, "copy",
                                      {Name("hero", 2, 0, "mov")})] >>

Remove(tgt, n) == [m \in DOMAIN tgt \ {n} |-> tgt[m]]

\* _target_has_media_files: entry.is_file(follow_symlinks=False) and the
\* text from the last dot in valid_extensions
target_has_media_files(tgt) ==
    \E n \in DOMAIN tgt : ~is_symlink(tgt[n]) /\ n.ext \in valid_extensions

\* _check_locked_files: f.is_file() (symlinks followed) with a valid
\* suffix whose open(f, "a") fails
check_locked_files(tgt, lck) ==
    {n \in DOMAIN tgt : n.ext \in valid_extensions /\ n \in lck}

\* a variant of _clear_target that unlinks every entry of the directory
clear_names_all(tgt) == DOMAIN tgt

\* the names _clear_target unlinks: files with a valid suffix, and symlinks
clear_names(tgt) ==
    {n \in DOMAIN tgt : n.ext \in valid_extensions \/ is_symlink(tgt[n])}

\* _get_max_mtime of the target directory: regular files only
MaxOf(S) == IF S = {} THEN NoMtime ELSE CHOOSE x \in S : \A y \in S : y <= x

target_max_mtime(tgt) ==
    MaxOf({tgt[n].mtime : n \in {m \in DOMAIN tgt :
              ~is_symlink(tgt[m]) /\ m.ext \in valid_extensions}})

\* _get_max_mtime of the source path
source_max_mtime(version) ==
    IF version.kind = "dir"
    THEN MaxOf({SrcMtime(f) : f \in MatchingFiles(version)})
    ELSE MaxOf({SrcMtime(f) : f \in version.files})

\* HistoryEntry.from_version_info(version, user), with the two mtimes
promotion_entry(version, now, tgt) ==
    LET n == IF version.kind = "dir"
             THEN Cardinality(MatchingFiles(version)) ELSE 1
    IN  HistoryEntry("v003", "/renders/hero_v003", "artist", now,
                     IF n >= 2 THEN "1001-10xx" ELSE None, n, n, None,
                     source_max_mtime(version), target_max_mtime(tgt))

\* the message of the PromotionError a failed transfer ends in
transfer_error(mode, windows) ==
    IF mode = "symlink"
    THEN (IF windows THEN "symlink_remediation" ELSE "file_op_failed")
    ELSE IF mode = "hardlink" THEN "hardlink_remediation"
    ELSE "file_op_failed"

---------------------------------------------------------------------------
(* State after construction *)

\* no read-only call has been made
NoCall == [op |-> "none"]

\* no directory is being scanned
NoTree == {}

\* no PromoteWorker thread
NoWorker == [none |-> TRUE]

\* MainWindow.__init__: _batch_promote_list = [], _batch_promote_index = 0,
\* _worker = None; `attempted` and `misrouted` record what the batch did
MainWindow ==
    [batch_promote_list |-> <<>>, batch_promote_index |-> 0,
     worker |-> NoWorker, current_source |-> "", app |-> "running",
     attempted |-> <<>>, misrouted |-> FALSE]

NoCallMade ==
    /\ arg = NoCall
    /\ ret = NoCall
    /\ tree = NoTree
    /\ gui = MainWindow

\* no promotion is running
PromoterIdle ==
    /\ why = [msg |-> "none", files |-> {}]
    /\ todo = {}
    /\ xfer = [files |-> <<>>, i |-> 0, copied |-> 0, regs |-> <<>>,
               calling |-> 0,
               completed |-> 0]
    /\ cb = [n |-> 0, last |-> 0, ok |-> TRUE]
    /\ ghost = [pre_target |-> NoFiles, pre_final |-> Absent,
                failed |-> FALSE, after_fail |-> FALSE]

InitHist ==
    /\ \E f \in InitFinalFiles :
          fs = [p \in {"final", "tmp", "bak"} |->
                   IF p = "final" THEN f ELSE Absent]
    /\ cfg = [link_mode |-> "copy", template |-> "", version |-> VSmall,
              callback |-> FALSE]
    /\ target = NoFiles
    /\ tdir = TRUE
    /\ locked = {}
    /\ src_bad = {}
    /\ PromoterIdle
    /\ NoCallMade
    /\ pc = "idle"
    /\ exc = "none"
    /\ h_entry = NoEntry
    /\ h_data = <<>>
    /\ clock = MAX_HISTORY_ENTRIES + 1
    /\ calls = 0
    /\ rd_seen = [taken |-> FALSE]
    /\ prev_file = Absent
    /\ hist_before = <<>>
    /\ renamed = FALSE

---------------------------------------------------------------------------
(* HistoryManager.record_promotion(entry) and save(current, history) *)

\* a caller calls record_promotion(e)
CallRecordPromotion ==
    /\ UNCHANGED <<promVars, callVars>>
    /\ pc \in {"idle", "returned", "raised"}
    /\ calls < MaxCalls
    /\ \E v \in {"v001", "v002"} :
          h_entry' = SampleEntry(v, clock, v = "v002")
    /\ pc' = "rp_load"
    /\ exc' = "none"
    /\ clock' = clock + 1
    /\ calls' = calls + 1
    /\ renamed' = FALSE
    /\ rd_seen' = [taken |-> FALSE]
    /\ UNCHANGED <<fs, h_data, prev_file, hist_before>>

\* data = self.load(); history.insert(0, entry); save() builds `data`
RecordPromotionLoad ==
    /\ UNCHANGED <<promVars, callVars>>
    /\ pc = "rp_load"
    /\ LET r == load(fs["final"]) IN
          /\ fs' = FsAfterLoad(fs)
          /\ IF r.exc # "none"
             THEN /\ pc' = "raised"
                  /\ exc' = r.exc
                  /\ UNCHANGED <<h_data, prev_file, hist_before>>
             ELSE /\ pc' = "save_open"
                  /\ exc' = "none"
                  /\ hist_before' = r.rec.history
                  /\ h_data' = save_data(h_entry,
                                         insert_first(r.rec.history, h_entry))
                  /\ prev_file' = fs'["final"]
    /\ UNCHANGED <<h_entry, clock, calls, rd_seen, renamed>>

\* self.path.parent.mkdir(...); open(tmp_path, "w"): truncates or creates
SaveOpen ==
    /\ UNCHANGED <<promVars, callVars>>
    /\ pc = "save_open"
    /\ \/ /\ fs' = [fs EXCEPT ![tmp_path] = File(<<>>)]
          /\ pc' = "save_write"
          /\ exc' = "none"
       \/ \* mkdir or open raises OSError: nothing was created
          /\ pc' = "save_except"
          /\ UNCHANGED <<fs, exc>>
    /\ UNCHANGED <<h_entry, h_data, clock, calls, rd_seen, prev_file,
                   hist_before, renamed>>

\* json.dump writes the text piece by piece; the last piece closes the file
SaveWrite ==
    /\ UNCHANGED <<promVars, callVars>>
    /\ pc = "save_write"
    /\ LET n == Len(fs[tmp_path].data) IN
          \/ /\ n < Len(h_data)
             /\ fs' = [fs EXCEPT ![tmp_path] = File(Append(@.data, h_data[n + 1]))]
             /\ pc' = IF n + 1 = Len(h_data) THEN "save_replace"
                      ELSE "save_write"
          \/ \* a write raises OSError (disk full, share gone)
             /\ n < Len(h_data)
             /\ pc' = "save_except"
             /\ UNCHANGED fs
    /\ UNCHANGED <<exc, h_entry, h_data, clock, calls, rd_seen, prev_file,
                   hist_before, renamed>>

\* tmp_path.replace(self.path)
SaveReplace ==
    /\ UNCHANGED <<promVars, callVars>>
    /\ pc = "save_replace"
    /\ \/ /\ fs' = IF tmp_path = "final" THEN fs
                   ELSE [fs EXCEPT !["final"] = fs[tmp_path],
                                   ![tmp_path] = Absent]
          /\ renamed' = TRUE
          /\ pc' = "save_log"
       \/ \* the rename raises OSError
          /\ pc' = "save_except"
          /\ UNCHANGED <<fs, renamed>>
    /\ UNCHANGED <<exc, h_entry, h_data, clock, calls, rd_seen, prev_file,
                   hist_before>>

\* logger.info(...); save and record_promotion return
SaveReturn ==
    /\ UNCHANGED <<promVars, callVars>>
    /\ pc = "save_log"
    /\ pc' = "returned"
    /\ UNCHANGED <<fs, exc, h_entry, h_data, clock, calls, rd_seen,
                   prev_file, hist_before, renamed>>

\* except OSError: if tmp_path.exists(): tmp_path.unlink(); raise
SaveExcept ==
    /\ UNCHANGED <<promVars, callVars>>
    /\ pc = "save_except"
    /\ fs' = [fs EXCEPT ![tmp_path] = Absent]
    /\ pc' = "raised"
    /\ exc' = "OSError"
    /\ UNCHANGED <<h_entry, h_data, clock, calls, rd_seen, prev_file,
                   hist_before, renamed>>

\* the process dies inside save(): the files stay as they are
Crash ==
    /\ UNCHANGED <<promVars, callVars>>
    /\ pc \in {"save_open", "save_write", "save_replace", "save_log",
               "save_except"}
    /\ pc' = "crashed"
    /\ UNCHANGED <<fs, exc, h_entry, h_data, clock, calls, rd_seen,
                   prev_file, hist_before, renamed>>

\* another process calls load() while the caller is inside save()
ReaderLoad ==
    /\ UNCHANGED <<promVars, callVars>>
    /\ pc \in {"save_open", "save_write", "save_replace", "save_log",
               "save_except"}
    /\ rd_seen' = [taken |-> TRUE, after |-> renamed, res |-> load(fs["final"])]
    /\ fs' = FsAfterLoad(fs)
    /\ UNCHANGED <<pc, exc, h_entry, h_data, clock, calls, prev_file,
                   hist_before, renamed>>

NextHist ==
    \/ CallRecordPromotion
    \/ RecordPromotionLoad
    \/ SaveOpen
    \/ SaveWrite
    \/ SaveReplace
    \/ SaveReturn
    \/ SaveExcept
    \/ Crash
    \/ ReaderLoad

SpecHist == InitHist /\ [][NextHist]_vars

---------------------------------------------------------------------------
(* Promoter.promote(version, user, progress_callback) *)

\* one file name of each kind that can be locked in target directory tgt
LockChoices(tgt) ==
    {{}} \cup {{n} : n \in {m \in DOMAIN tgt : m.ext \in valid_extensions}}

\* no source file fails, or the second one does (the only one of one)
BadChoices(version) ==
    LET sf == source_files(version) IN
    IF Len(sf) = 0 THEN {{}}
    ELSE {{}, {sf[IF Len(sf) >= 2 THEN 2 ELSE 1]}}

InitPromoter(modes, templates, versions, presets, callback, finals) ==
    /\ \E f \in finals :
          fs = [p \in {"final", "tmp", "bak"} |->
                   IF p = "final" THEN f ELSE Absent]
    /\ \E m \in modes, t \in templates, v \in versions :
          /\ cfg = [link_mode |-> m, template |-> t, version |-> v,
                    callback |-> callback]
          /\ \E k \in presets :
                /\ target = TargetPresets(t)[k].files
                /\ tdir = TargetPresets(t)[k].dir
          /\ src_bad \in BadChoices(v)
    /\ locked \in LockChoices(target)
    /\ PromoterIdle
    /\ NoCallMade
    /\ pc = "idle"
    /\ exc = "none"
    /\ h_entry = NoEntry
    /\ h_data = <<>>
    /\ clock = MAX_HISTORY_ENTRIES + 1
    /\ calls = 0
    /\ rd_seen = [taken |-> FALSE]
    /\ prev_file = Absent
    /\ hist_before = <<>>
    /\ renamed = FALSE

\* promote(version) without a progress callback, as the batch command
\* calls it (main.py)
Init ==
    InitPromoter(LinkModes, Templates, Versions, 1..5, FALSE,
                 {Absent, PastRecord(1), File(<<TokArray>>), File(<<TokOpen>>)})

\* promote(version, progress_callback=progress), as the GUI worker and the
\* promote command call it (app.py, main.py)
InitPar ==
    InitPromoter(LinkModes, {""}, {VSmall, VLarge, VSingle}, {1, 3}, TRUE,
                 {Absent})

\* raise <kind>(<msg>) to the caller of promote()
Raise(kind, msg, files) ==
    /\ pc' = "raised"
    /\ exc' = kind
    /\ why' = [msg |-> msg, files |-> files]

\* progress_callback(current, total, name) as the caller sees it
Invoke(c, current) ==
    [n |-> c.n + 1, last |-> current,
     ok |-> c.ok /\ (c.n = 0 \/ current > c.last)]

\* a transfer that never overwrites: an existing name is kept and the new
\* file is written beside it
Put_beside(tgt, mode, template, f) ==
    LET n == remap(template, f)
        m == IF n \in DOMAIN tgt THEN Name(n.stem, 1, n.frame, n.ext) ELSE n
    IN  [k \in DOMAIN tgt \cup {m} |-> IF k = m THEN Entry(mode, f) ELSE tgt[k]]

\* a transfer that leaves the target directory as it was
Put_nothing(tgt, mode, template, f) == tgt

\* _link_or_copy / _copy_one: the target name is unlinked, then created
Put(tgt, mode, template, f) ==
    [n \in DOMAIN tgt \cup {remap(template, f)} |->
        IF n = remap(template, f) THEN Entry(mode, f) ELSE tgt[n]]

\* a variant that already copies ten files in parallel
use_parallel_from(mode, total) == mode = "copy" /\ total >= PARALLEL_OVER

\* _promote_sequence: mode == "copy" and total > 10
use_parallel(mode, total) == mode = "copy" /\ total > PARALLEL_OVER

\* promote(): the locked files found, when the target has media files
probe(tgt, lck) ==
    IF target_has_media_files(tgt) THEN check_locked_files(tgt, lck) ELSE {}

PromoteCall ==
    /\ pc = "idle"
    /\ calls = 0
    /\ pc' = "p_validate"
    /\ calls' = calls + 1
    /\ ghost' = [pre_target |-> target, pre_final |-> fs["final"],
                 failed |-> FALSE, after_fail |-> FALSE]
    /\ UNCHANGED <<callVars, histVars, exc, clock, cfg, target, tdir, locked,
                   src_bad, why, todo, xfer, cb>>

\* if not source_path.exists(): raise PromotionError
PromoteValidate ==
    /\ pc = "p_validate"
    /\ IF cfg.version.kind = "gone"
       THEN Raise("PromotionError", "source_missing", {})
       ELSE pc' = "p_mkdir" /\ UNCHANGED <<exc, why>>
    /\ UNCHANGED <<callVars, histVars, clock, calls, cfg, target, tdir, locked,
                   src_bad, todo, xfer, cb, ghost>>

\* target_dir.mkdir(parents=True, exist_ok=True), outside any try
PromoteMkdir ==
    /\ pc = "p_mkdir"
    /\ \/ /\ tdir' = TRUE
          /\ pc' = "p_locks"
          /\ UNCHANGED <<exc, why>>
       \/ /\ ~tdir
          /\ Raise("OSError", "mkdir", {})
          /\ UNCHANGED tdir
    /\ UNCHANGED <<callVars, histVars, clock, calls, cfg, target, locked, src_bad,
                   todo, xfer, cb, ghost>>

\* if self._target_has_media_files(target_dir): locked = ...; raise
PromoteLockCheck ==
    /\ pc = "p_locks"
    /\ IF probe(target, locked) # {}
       THEN Raise("PromotionError", "locked", probe(target, locked))
       ELSE /\ pc' = IF cfg.version.kind = "dir" THEN "p_source"
                     ELSE "p_single"
            /\ UNCHANGED <<exc, why>>
    /\ UNCHANGED <<callVars, histVars, clock, calls, cfg, target, tdir, locked,
                   src_bad, todo, xfer, cb, ghost>>

\* _promote_sequence: list the source files; none: raise
PromoteListSource ==
    /\ pc = "p_source"
    /\ IF MatchingFiles(cfg.version) = {}
       THEN Raise("PromotionError", "no_matching", {})
            /\ UNCHANGED <<todo, xfer>>
       ELSE /\ pc' = "p_clear"
            /\ xfer' = [xfer EXCEPT !.files = source_files(cfg.version)]
            /\ todo' = clear_names(target)
            /\ UNCHANGED <<exc, why>>
    /\ UNCHANGED <<callVars, histVars, clock, calls, cfg, target, tdir, locked,
                   src_bad, cb, ghost>>

\* _clear_target: unlink each matching entry of the listing, in the
\* directory's order; then choose the sequential or the parallel transfer
ClearTarget ==
    /\ pc = "p_clear"
    /\ \/ /\ todo = {}
          /\ pc' = IF use_parallel(cfg.link_mode, Len(xfer.files))
                   THEN "p_par" ELSE "p_seq"
          /\ UNCHANGED <<exc, why, target, todo>>
       \/ \E n \in todo :
             /\ target' = Remove(target, n)
             /\ todo' = todo \ {n}
             /\ UNCHANGED <<pc, exc, why>>
       \/ \E n \in todo :
             \* unlink raises: PermissionError on a media file becomes
             \* "Cannot delete", any other error "File operation failed"
             /\ Raise("PromotionError",
                      IF n.ext \in valid_extensions THEN "cannot_delete"
                      ELSE "file_op_failed", {n})
             /\ UNCHANGED <<target, todo>>
    /\ UNCHANGED <<callVars, histVars, clock, calls, cfg, tdir, locked, src_bad,
                   xfer, cb, ghost>>

\* the sequential loop: _link_or_copy of the next file, then the callback
TransferNext ==
    /\ pc = "p_seq"
    /\ LET sf == xfer.files IN
       IF xfer.i = Len(sf)
       THEN /\ pc' = "p_record"
            /\ UNCHANGED <<exc, why, target, xfer, cb, ghost>>
       ELSE LET f == sf[xfer.i + 1] IN
            IF f \in src_bad
            THEN /\ \E windows \in BOOLEAN :
                       Raise("PromotionError",
                             transfer_error(cfg.link_mode, windows), {})
                 /\ target' = Remove(target, remap(cfg.template, f))
                 /\ ghost' = [ghost EXCEPT !.failed = TRUE]
                 /\ UNCHANGED <<xfer, cb>>
            ELSE /\ target' = Put(target, cfg.link_mode, cfg.template, f)
                 /\ xfer' = [xfer EXCEPT !.i = @ + 1]
                 /\ cb' = IF cfg.callback THEN Invoke(cb, xfer.i + 1) ELSE cb
                 /\ ghost' = [ghost EXCEPT !.after_fail = @ \/ ghost.failed]
                 /\ UNCHANGED <<pc, exc, why>>
    /\ UNCHANGED <<callVars, histVars, clock, calls, cfg, tdir, locked, src_bad, todo>>

\* _promote_single_file: callback(0, 1), _link_or_copy, callback(1, 1);
\* the target is not cleared
PromoteSingleFile ==
    /\ pc = "p_single"
    /\ LET f == CHOOSE g \in cfg.version.files : TRUE
           c0 == IF cfg.callback THEN Invoke(cb, 0) ELSE cb
       IN  IF f \in src_bad
           THEN /\ \E windows \in BOOLEAN :
                      Raise("PromotionError",
                            transfer_error(cfg.link_mode, windows), {})
                /\ target' = Remove(target, remap(cfg.template, f))
                /\ cb' = c0
                /\ ghost' = [ghost EXCEPT !.failed = TRUE]
                /\ UNCHANGED xfer
           ELSE /\ target' = Put(target, cfg.link_mode, cfg.template, f)
                /\ cb' = IF cfg.callback THEN Invoke(c0, 1) ELSE cb
                /\ xfer' = [xfer EXCEPT !.i = 1]
                /\ pc' = "p_record"
                /\ UNCHANGED <<exc, why, ghost>>
    /\ UNCHANGED <<callVars, histVars, clock, calls, cfg, tdir, locked, src_bad, todo>>

\* _parallel_copy under a variant that never asks the futures' results
future_result_unasked(failed) == FALSE

\* future.result() raises when a _copy_one call has raised
future_result(failed) == failed

\* the values read by the workers that are about to store the counter,
\* in ascending order
AddReg(regs, r) ==
    LET k == Cardinality({j \in 1..Len(regs) : regs[j] <= r})
    IN  SubSeq(regs, 1, k) \o <<r>> \o SubSeq(regs, k + 1, Len(regs))

DropReg(regs, k) == SubSeq(regs, 1, k - 1) \o SubSeq(regs, k + 1, Len(regs))

\* _parallel_copy: an idle worker takes the next file and runs _copy_one
\* up to shutil.copy2.  A failure is kept in the file's future and the
\* worker goes on.  Without a callback nothing reads `completed`, and its
\* increment is part of this step.
CopyOne ==
    /\ pc = "p_par"
    /\ xfer.i < Len(xfer.files)
    /\ xfer.copied + Len(xfer.regs) + xfer.calling < COPY_WORKERS
    /\ LET f == xfer.files[xfer.i + 1] IN
       IF f \in src_bad
       THEN /\ target' = Remove(target, remap(cfg.template, f))
            /\ xfer' = [xfer EXCEPT !.i = @ + 1]
            /\ ghost' = [ghost EXCEPT !.failed = TRUE]
       ELSE /\ target' = Put(target, "copy", cfg.template, f)
            /\ xfer' = IF cfg.callback
                       THEN [xfer EXCEPT !.i = @ + 1, !.copied = @ + 1]
                       ELSE [xfer EXCEPT !.i = @ + 1, !.completed = @ + 1]
            /\ ghost' = [ghost EXCEPT !.after_fail = @ \/ ghost.failed]
    /\ UNCHANGED <<callVars, histVars, pc, exc, clock, calls, cfg, tdir, locked,
                   src_bad, why, todo, cb>>

\* completed[0] += 1, the load: a worker reads the counter
IncRead ==
    /\ pc = "p_par"
    /\ xfer.copied > 0
    /\ xfer' = [xfer EXCEPT !.copied = @ - 1,
                    !.regs = AddReg(@, xfer.completed)]
    /\ UNCHANGED <<callVars, histVars, pc, exc, clock, calls, cfg, target, tdir,
                   locked, src_bad, why, todo, cb, ghost>>

\* completed[0] += 1, the store: the worker writes what it read, plus 1
IncWrite ==
    /\ pc = "p_par"
    /\ \E k \in 1..Len(xfer.regs) :
          xfer' = [xfer EXCEPT !.completed = xfer.regs[k] + 1,
                      !.regs = DropReg(@, k), !.calling = @ + 1]
    /\ UNCHANGED <<callVars, histVars, pc, exc, clock, calls, cfg, target, tdir,
                   locked, src_bad, why, todo, cb, ghost>>

\* progress_callback(completed[0], total, name); the worker is idle again
Callback ==
    /\ pc = "p_par"
    /\ xfer.calling > 0
    /\ cb' = Invoke(cb, xfer.completed)
    /\ xfer' = [xfer EXCEPT !.calling = @ - 1]
    /\ UNCHANGED <<callVars, histVars, pc, exc, clock, calls, cfg, target, tdir,
                   locked, src_bad, why, todo, ghost>>

\* for future in futures: future.result(), and the executor's shutdown:
\* every file has been handled; the first exception kept is raised
ParallelJoin ==
    /\ pc = "p_par"
    /\ xfer.i = Len(xfer.files)
    /\ xfer.copied = 0
    /\ xfer.regs = <<>>
    /\ xfer.calling = 0
    /\ IF future_result(ghost.failed)
       THEN Raise("PromotionError", "file_op_failed", {})
       ELSE pc' = "p_record" /\ UNCHANGED <<exc, why>>
    /\ UNCHANGED <<callVars, histVars, clock, calls, cfg, target, tdir, locked,
                   src_bad, todo, xfer, cb, ghost>>

\* entry = HistoryEntry.from_version_info(version, user), the two mtimes,
\* self.history.record_promotion(entry): outside any try
PromoteRecord ==
    /\ pc = "p_record"
    /\ h_entry' = promotion_entry(cfg.version, clock, target)
    /\ clock' = clock + 1
    /\ pc' = "rp_load"
    /\ UNCHANGED <<callVars, fs, h_data, rd_seen, prev_file, hist_before, renamed,
                   exc, calls, promVars>>

Next ==
    \/ PromoteCall
    \/ PromoteValidate
    \/ PromoteMkdir
    \/ PromoteLockCheck
    \/ PromoteListSource
    \/ ClearTarget
    \/ TransferNext
    \/ PromoteSingleFile
    \/ CopyOne
    \/ ParallelJoin
    \/ PromoteRecord
    \/ RecordPromotionLoad
    \/ SaveOpen
    \/ SaveWrite
    \/ SaveReplace
    \/ SaveReturn
    \/ SaveExcept

Spec == Init /\ [][Next]_vars

NextPar ==
    \/ Next
    \/ IncRead
    \/ IncWrite
    \/ Callback

SpecPar == InitPar /\ [][NextPar]_vars

---------------------------------------------------------------------------
(* Claims about promote(), checked under Spec and SpecPar *)

\* the files promote() transfers: the matching files of a directory, or the
\* one file of a single-file version
Transferred == IF cfg.version.kind = "dir" THEN MatchingFiles(cfg.version) ELSE cfg.version.files

MediaNames(tgt) == {n \in DOMAIN tgt : n.ext \in valid_extensions}

InTarget(f) == remap(cfg.template, f) \in DOMAIN target /\ target[remap(cfg.template, f)] = Entry(cfg.link_mode, f)

Recording == pc \in {"rp_load", "save_open", "save_write", "save_replace", "save_log", "save_except", "returned"}

\* C4: after a successful promote(), of a directory or of a single file, the
\* files with a configured extension in the target directory are exactly the
\* remapped files of the version just promoted; nothing an earlier promotion
\* left remains.
C4_TargetCleared ==
    (pc = "returned" /\ calls = 1) =>
        MediaNames(target) = {remap(cfg.template, f) : f \in Transferred}

\* C5: when the source exists and the target directory held a file with a
\* configured extension that fails the open-for-append probe, promote() has
\* raised PromotionError listing the locked files once it is past the lock
\* check, and the target directory and the history file are as before.
C5_LockedAborts ==
    (/\ calls = 1
     /\ cfg.version.kind # "gone"
     /\ check_locked_files(ghost.pre_target, locked) # {}
     /\ pc \notin {"p_validate", "p_mkdir", "p_locks"}) =>
        /\ pc = "raised"
        /\ exc = "PromotionError"
        /\ why = [msg |-> "locked", files |-> check_locked_files(ghost.pre_target, locked)]
        /\ target = ghost.pre_target
        /\ fs["final"] = ghost.pre_final

\* C6: promote() starts recording the HistoryEntry only when every file of
\* the version has been transferred and none has failed; whenever promote()
\* has raised, the history file is the one from before the call, or that
\* file was unreadable, has been moved to .bak, and the record load() returns
\* is the same empty one as before.
C6_HistoryAfterTransfer ==
    /\ (calls = 1 /\ (Recording \/ fs["final"] # ghost.pre_final)) =>
          /\ ~ghost.failed
          /\ \A f \in Transferred : InTarget(f)
    /\ (calls = 1 /\ pc = "raised") =>
          \/ fs["final"] = ghost.pre_final
          \/ /\ load(ghost.pre_final).backup
             /\ fs["bak"] = ghost.pre_final
             /\ load(fs["final"]).rec = load(ghost.pre_final).rec

C6_Witness ==
    /\ pc = "returned"
    /\ calls = 1
    /\ cfg.version = VLarge
    /\ fs["final"] # ghost.pre_final
    /\ load(fs["final"]).rec.current = h_entry

\* C7, as stated: when a file's transfer fails, on either path, no file of
\* the promotion is transferred after the failure, and promote() raises.
C7_AbortsRemaining ==
    ghost.failed => /\ ~ghost.after_fail
                    /\ pc \in {"p_par", "raised"}

\* the files handled so far that did not fail are in the target directory
WrittenInPlace ==
    \A j \in 1..xfer.i :
        xfer.files[j] \notin src_bad => InTarget(xfer.files[j])

\* C7, amended: a failure on the sequential path raises at once and nothing
\* is transferred after it; on the parallel path the copies already
\* submitted all run, and promote() raises when every one has ended.  On
\* both paths the files written stay in place and promote() raises
\* PromotionError without recording.
C7_AbortsRemainingAmended ==
    ghost.failed =>
        /\ pc \in {"p_par", "raised"}
        /\ pc = "raised" => exc = "PromotionError"
        /\ cfg.version.kind = "dir" => WrittenInPlace
        /\ ~use_parallel(cfg.link_mode, Len(xfer.files)) =>
              pc = "raised" /\ ~ghost.after_fail
        /\ (use_parallel(cfg.link_mode, Len(xfer.files)) /\ pc = "raised") =>
              xfer.i = Len(xfer.files)

C7_Witness ==
    /\ pc = "raised"
    /\ ghost.failed
    /\ ghost.after_fail
    /\ xfer.i = Len(xfer.files)
    /\ Cardinality(DOMAIN target) >= PARALLEL_OVER

\* C8: every progress_callback invocation of one promotion passes a
\* `current` greater than the invocation before it.
C8_CallbackIncreasing == cb.ok

\* C9: whatever makes promote() fail, the caller gets a PromotionError; a
\* failed symlink or hardlink creation gets the one describing the
\* remediation.
C9_OnlyPromotionError ==
    (calls = 1 /\ pc = "raised") =>
        /\ exc = "PromotionError"
        /\ (ghost.failed /\ cfg.link_mode = "symlink") =>
              why.msg = "symlink_remediation"
        /\ (ghost.failed /\ cfg.link_mode = "hardlink") =>
              why.msg = "hardlink_remediation"

---------------------------------------------------------------------------
(* Claims about the history store, checked under SpecHist *)

InSave ==
    pc \in {"save_open", "save_write", "save_replace", "save_log",
            "save_except"}

\* save() was entered by the last call (running, crashed, failed or done)
SaveEntered ==
    InSave \/ pc \in {"crashed", "returned"}
           \/ (pc = "raised" /\ exc = "OSError")

\* C1: save() changes the final path in one step, the rename.  Until the
\* rename the final path holds the file it held when save() was entered,
\* whether save() is running, has crashed or has failed; from the rename on
\* it holds the complete new record; a concurrent load() returns the
\* previous record before the rename and the new one after it.
C1_SaveAtomic ==
    SaveEntered =>
        /\ fs["final"] = IF renamed THEN File(h_data) ELSE prev_file
        /\ rd_seen.taken =>
              rd_seen.res = IF rd_seen.after THEN load(File(h_data))
                            ELSE load(prev_file)

\* a crash before the rename, with the temporary file half written, a
\* previous record at the final path and a reader that loaded it meanwhile
C1_Witness ==
    /\ pc = "crashed"
    /\ ~renamed
    /\ prev_file.exists
    /\ fs["tmp"].exists
    /\ Len(fs["tmp"].data) \in 1..(Len(h_data) - 1)
    /\ rd_seen.taken

\* C2: after record_promotion(e) returns, load() returns current = e and
\* history[0] = e, every field equal after to_dict / from_dict, so the
\* record a promotion wrote has current = history[0].
C2_RoundTrip ==
    pc = "returned" =>
        LET r == load(fs["final"]) IN
            /\ r.exc = "none"
            /\ ~r.backup
            /\ r.rec.current = h_entry
            /\ Len(r.rec.history) >= 1
            /\ r.rec.history[1] = h_entry
            /\ r.rec.current = r.rec.history[1]

\* the second promotion returned, its entry carrying both mtimes
C2_Witness ==
    /\ pc = "returned"
    /\ calls = 2
    /\ h_entry.source_mtime # NoMtime
    /\ h_entry.target_mtime # NoMtime
    /\ Len(hist_before) >= 1

\* C3: the persisted history never exceeds 100 entries, and after a call
\* it is the new entry followed by the previous history, in order and
\* field for field, cut after the 100th entry.
C3_HistoryCapped ==
    LET r == load(fs["final"]) IN
        /\ r.exc = "none" => Len(r.rec.history) <= 100
        /\ pc = "returned" =>
              LET all == <<h_entry>> \o hist_before
                  keep == IF Len(all) > 100 THEN 100 ELSE Len(all)
              IN  r.rec.history = SubSeq(all, 1, keep)

\* a promotion onto a full history returned: the oldest entry was dropped
C3_Witness ==
    /\ pc = "returned"
    /\ Len(hist_before) = 100
    /\ Len(load(fs["final"]).rec.history) = 100

\* the file at the final path is no record load() can parse
Malformed(f) ==
    f.exists /\ (json_load(f.data) # "object" \/ FromDictError(f.data) # "none")

\* C10: load() never raises: an absent file gives the empty record, and a
\* file with any malformed content is renamed to .bak and gives the empty
\* record, as does the next load().  Stated of the load() record_promotion
\* runs: no exception of load() reaches the caller, and when load() has
\* returned no malformed file is left at the final path, an absent or
\* renamed file gave the empty record, and the next load() does not raise.
C10_LoadNeverRaises ==
    /\ pc = "raised" => exc = "OSError"
    /\ pc = "save_open" =>
          /\ ~Malformed(fs["final"])
          /\ ~fs["final"].exists => hist_before = <<>>
          /\ load(fs["final"]).exc = "none"

---------------------------------------------------------------------------
(* HistoryManager.verify_integrity(actual_files) *)

\* the current record says how many files it promoted
count_known_always(n) == TRUE

\* current.file_count > 0
count_known(n) == n > 0

\* what verify_integrity returns on history file f, or the exception that
\* get_current() lets through
verify_integrity(f, actual_files) ==
    LET r == load(f)
        current == r.rec.current
    IN  IF r.exc # "none" THEN [raised |-> r.exc]
        ELSE IF current = NoEntry
        THEN (IF actual_files # <<>>
              THEN [valid |-> FALSE, message |-> "files_but_no_history"]
              ELSE [valid |-> TRUE, message |-> "clean_state"])
        ELSE IF actual_files = <<>>
        THEN [valid |-> FALSE, message |-> "no_files_found"]
        ELSE IF /\ count_known(current.file_count)
                /\ Len(actual_files) # current.file_count
        THEN [valid |-> FALSE, message |-> "count_differs"]
        ELSE [valid |-> TRUE, message |-> "files_match"]

\* a record whose current entry promoted n files
CountRecord(n) ==
    LET e == HistoryEntry("v003", "/renders/hero_v003", "artist", 7,
                          None, n, n, None, NoMtime, NoMtime)
    IN  File(save_data(e, <<e>>))

\* a record written before file_count was stored, and one without current
LegacyRecord ==
    File(<<TokOpen,
           TokCurrent([version |-> "v001", source |-> "/renders/hero_v001"]),
           TokClose>>)

NoCurrentRecord == File(<<TokOpen, TokClose>>)

VerifyFiles ==
    {Absent, NoCurrentRecord, LegacyRecord, PastRecord(1), File(<<TokOpen>>),
     File(<<TokArray>>)} \cup {CountRecord(n) : n \in 0..4}

TargetListing == <<"hero.1001.exr", "hero.1002.exr", "hero.1003.exr", "hero.mov">>

\* the file names a caller can pass: runs of the target's listing
ActualFileLists ==
    {SubSeq(TargetListing, i, j) : i \in 1..Len(TargetListing), j \in 0..Len(TargetListing)}

InitVerify ==
    InitPromoter({"copy"}, {""}, {VSmall}, {2}, FALSE, VerifyFiles)

\* a caller calls verify_integrity(actual_files); get_current() loads the
\* record, which moves an unparsable file to .bak
VerifyIntegrity ==
    /\ pc = "idle"
    /\ \E a \in ActualFileLists :
          /\ arg' = [op |-> "verify_integrity", actual_files |-> a,
                     file |-> fs["final"]]
          /\ ret' = verify_integrity(fs["final"], a)
    /\ fs' = FsAfterLoad(fs)
    /\ UNCHANGED <<pc, exc, h_entry, h_data, clock, calls, rd_seen,
                   prev_file, hist_before, renamed, promVars, tree, gui>>

NextVerify == VerifyIntegrity

SpecVerify == InitVerify /\ [][NextVerify]_vars

\* the current record verify_integrity saw, and what it returned
VerifyReturned == arg.op = "verify_integrity" /\ "valid" \in DOMAIN ret

SeenCurrent == load(arg.file).rec.current

\* C11, as stated: invalid when there is no current record but files, when
\* there is a current record but no file, and when the number of files
\* differs from the record's file_count; valid in every other case.
C11_VerifyTable ==
    VerifyReturned =>
        (ret.valid <=>
            ~ \/ SeenCurrent = NoEntry /\ arg.actual_files # <<>>
              \/ SeenCurrent # NoEntry /\ arg.actual_files = <<>>
              \/ /\ SeenCurrent # NoEntry
                 /\ Len(arg.actual_files) # SeenCurrent.file_count)

\* C11, amended: as above, but a differing number of files makes the result
\* invalid only when the record's file_count is positive; a record with
\* file_count 0 (count unknown) and any non-empty file list is valid.
C11_VerifyTableAmended ==
    VerifyReturned =>
        (ret.valid <=>
            ~ \/ SeenCurrent = NoEntry /\ arg.actual_files # <<>>
              \/ SeenCurrent # NoEntry /\ arg.actual_files = <<>>
              \/ /\ SeenCurrent # NoEntry
                 /\ SeenCurrent.file_count > 0
                 /\ Len(arg.actual_files) # SeenCurrent.file_count)

C11_Witness ==
    /\ VerifyReturned
    /\ SeenCurrent # NoEntry
    /\ SeenCurrent.file_count = 0
    /\ Len(arg.actual_files) = 2
    /\ ret.valid

---------------------------------------------------------------------------
(* promote(version) called a second time, with the source as it was *)

\* st_size of a source file, and of a target entry copied or linked from it
SrcSize(f) == 1000 + f.frame
Size(e) == SrcSize(e.src)

InitTwice ==
    InitPromoter({"copy"}, Templates, {VSmall, VLarge, VSingle}, 1..5, FALSE,
                 {Absent})

\* the first promote() has returned; the caller calls promote(version) again
PromoteAgain ==
    /\ pc = "returned"
    /\ calls = 1
    /\ pc' = "p_validate"
    /\ calls' = 2
    /\ exc' = "none"
    /\ why' = [msg |-> "none", files |-> {}]
    /\ todo' = {}
    /\ xfer' = [files |-> <<>>, i |-> 0, copied |-> 0, regs |-> <<>>,
                calling |-> 0, completed |-> 0]
    /\ cb' = [n |-> 0, last |-> 0, ok |-> TRUE]
    /\ ghost' = [pre_target |-> target, pre_final |-> fs["final"],
                 failed |-> FALSE, after_fail |-> FALSE]
    /\ UNCHANGED <<callVars, histVars, clock, cfg, target, tdir, locked,
                   src_bad>>

NextTwice ==
    \/ Next
    \/ PromoteAgain

SpecTwice == InitTwice /\ [][NextTwice]_vars

\* C12: after the second promote() of the same version in copy mode the
\* target directory holds the same file names, each of the same size, as
\* after the first.
C12_CopyIdempotent ==
    (calls = 2 /\ pc = "returned") =>
        /\ DOMAIN target = DOMAIN ghost.pre_target
        /\ \A n \in DOMAIN target : Size(target[n]) = Size(ghost.pre_target[n])

C12_Witness ==
    /\ calls = 2
    /\ pc = "returned"
    /\ cfg.version = VLarge
    /\ Cardinality(DOMAIN target) > PARALLEL_OVER + 1

---------------------------------------------------------------------------
(* Promoter.dry_run(version) *)

\* dry_run under a variant that lists every file of the source directory
dry_source_files_all(version) ==
    IF version.kind = "gone" THEN <<>> ELSE sorted(version.files)

\* dry_run's own listing: the sorted matching files of a directory, the
\* file itself when source_path is a file, nothing otherwise
dry_source_files(version) ==
    IF version.kind = "dir" THEN sorted(MatchingFiles(version))
    ELSE IF version.kind = "file" THEN sorted(version.files)
    ELSE <<>>

\* the loop of dry_run over source_files[1..k]: file_map and total_size;
\* a file whose stat() raises OSError counts 0 bytes
RECURSIVE dry_loop(_, _, _, _)
dry_loop(template, sf, unstat, k) ==
    IF k = 0 THEN [file_map |-> <<>>, total_size |-> 0]
    ELSE LET before == dry_loop(template, sf, unstat, k - 1)
             size == IF sf[k] \in unstat THEN 0 ELSE SrcSize(sf[k])
         IN  [file_map |-> Append(before.file_map,
                                  [source |-> sf[k],
                                   target_name |-> remap(template, sf[k]),
                                   size_bytes |-> size]),
              total_size |-> before.total_size + size]

dry_run(template, mode, version, unstat) ==
    LET sf == dry_source_files(version)
        r == dry_loop(template, sf, unstat, Len(sf))
    IN  [file_map |-> r.file_map, total_files |-> Len(r.file_map),
         total_size_bytes |-> r.total_size, link_mode |-> mode]

\* a caller previews the promotion before promote() is called
DryRun ==
    /\ pc = "idle"
    /\ arg = NoCall
    /\ arg' = [op |-> "dry_run", version |-> cfg.version,
               seen |-> [fs |-> fs, target |-> target, tdir |-> tdir]]
    /\ ret' = dry_run(cfg.template, cfg.link_mode, cfg.version, src_bad)
    /\ UNCHANGED <<pc, exc, clock, calls, histVars, promVars, tree, gui>>

NextDry ==
    \/ Next
    \/ DryRun

SpecDry == Init /\ [][NextDry]_vars

RECURSIVE SumListed(_)
SumListed(file_map) ==
    IF file_map = <<>> THEN 0
    ELSE file_map[1].size_bytes + SumListed(Tail(file_map))

\* C13: dry_run leaves the history files, the target directory and its
\* entries as they were; its file_map lists, in the order promote() takes
\* them, exactly the source files promote() transfers, each under the name
\* promote() gives it in the target; total_size_bytes is the sum of the
\* listed sizes.
C13_DryRunFaithful ==
    arg.op = "dry_run" =>
        /\ pc = "idle" =>
              arg.seen = [fs |-> fs, target |-> target, tdir |-> tdir]
        /\ ret.total_size_bytes = SumListed(ret.file_map)
        /\ ret.total_files = Len(ret.file_map)
        /\ pc \in {"p_clear", "p_seq", "p_par"} =>
              xfer.files = [i \in 1..Len(ret.file_map) |->
                               ret.file_map[i].source]
        /\ pc \in {"p_record", "returned"} =>
              /\ {m.source : m \in {ret.file_map[i] : i \in 1..Len(ret.file_map)}}
                    = Transferred
              /\ \A i \in 1..Len(ret.file_map) :
                    /\ ret.file_map[i].target_name \in DOMAIN target
                    /\ target[ret.file_map[i].target_name] =
                          Entry(cfg.link_mode, ret.file_map[i].source)

C13_Witness ==
    /\ arg.op = "dry_run"
    /\ pc = "returned"
    /\ Len(ret.file_map) = 2
    /\ ret.total_size_bytes = SrcSize(ret.file_map[1].source) + SrcSize(ret.file_map[2].source)
    /\ cfg.template # ""

---------------------------------------------------------------------------
(* Directory entries read by VersionScanner (scanner.py) and discover()    *)
(* (discovery.py)                                                          *)

\* int(text) for a text of decimal digits, given as its digits
RECURSIVE IntOf(_)
IntOf(ds) ==
    IF ds = <<>> THEN 0
    ELSE 10 * IntOf(SubSeq(ds, 1, Len(ds) - 1)) + ds[Len(ds)]

\* the name [.]<stem>[_v<v>][.<frame>][.<ext>]
PathName(dot, stem, v, frame, ext) == [dot |-> dot, stem |-> stem, v |-> v, frame |-> frame, ext |-> ext]

\* a directory: "ok", "denied" (listing raises PermissionError) or "gone"
\* (listing raises FileNotFoundError: removed after its parent was listed)
DirEntry(name, status, children) == [kind |-> "dir", name |-> name, status |-> status, children |-> children]

FileEntry(name, size) == [kind |-> "file", name |-> name, size |-> size]

Stems == <<"comp", "hero", "misc", "notes", "renders", "shots">>
Exts == <<"", "exr", "mov", "txt">>

RankIn(seq, x) == CHOOSE i \in 1..Len(seq) : seq[i] = x

\* the characters of a name as numbers that compare as the characters do
PathKey(n) ==
    <<IF n.dot THEN 0 ELSE 1, RankIn(Stems, n.stem)>>
        \o [i \in 1..Len(n.v) |-> n.v[i] + 1] \o <<0>>
        \o [i \in 1..Len(n.frame) |-> n.frame[i] + 1] \o <<0>>
        \o <<RankIn(Exts, n.ext)>>

RECURSIVE LexLess(_, _)
LexLess(a, b) ==
    IF a = <<>> THEN b # <<>>
    ELSE IF b = <<>> THEN FALSE
    ELSE IF a[1] # b[1] THEN a[1] < b[1]
    ELSE LexLess(Tail(a), Tail(b))

\* sorted(path.iterdir()), files.sort(): entries in the order of their names
SortedEntries(S) ==
    [i \in 1..Cardinality(S) |->
        CHOOSE e \in S :
            Cardinality({g \in S : LexLess(PathKey(g.name), PathKey(e.name))})
                = i - 1]

\* list.sort(key=...), keys[i] being the key of seq[i]: Python's sort is
\* stable
StableSort(seq, keys) ==
    LET rank(i) == 1 + Cardinality({j \in 1..Len(seq) :
                        \/ keys[j] < keys[i]
                        \/ keys[j] = keys[i] /\ j < i})
    IN  [k \in 1..Len(seq) |-> seq[CHOOSE i \in 1..Len(seq) : rank(i) = k]]

\* FRAME_PATTERNS / FRAME_RE, [._](\d{3,8})\.\w+$: the name ends in a
\* separator, three to eight digits and an extension
HasFrame(n) == Len(n.frame) >= 3 /\ Len(n.frame) <= 8 /\ n.ext # ""

\* the version pattern "_v(\d+)" / VERSION_RE found in the name
HasVersion(n) == n.v # <<>>

\* VersionInfo(...); start_timecode is left None by every scan
VersionInfo(num, path, fr, fc, n, size) == [version_number |-> num, source_path |-> path, frame_range |-> fr, frame_count |-> fc, file_count |-> n, total_size_bytes |-> size]

RECURSIVE SumSizes(_)
SumSizes(files) ==
    IF files = <<>> THEN 0 ELSE files[1].size + SumSizes(Tail(files))

---------------------------------------------------------------------------
(* _detect_frame_range(files), in scanner.py and in discovery.py *)

\* f"{first}-{last}", with " ({actual}/{expected} frames, gaps detected)"
\* appended when the two counts differ
RangeString(first, last, actual, expected) == [first |-> first, last |-> last, marker |-> IF actual # expected THEN <<actual, expected>> ELSE <<>>]

\* (None, count): no range string
NoRange == [none |-> TRUE]

\* frames: int(match.group(1)) of every file the pattern matches
FrameNumbers(files) ==
    LET framed == SelectSeq(files, LAMBDA f : HasFrame(f.name))
    IN  [i \in 1..Len(framed) |-> IntOf(framed[i].name.frame)]

\* VersionScanner._detect_frame_range: (range_string, frame_count)
scanner_detect_frame_range(files) ==
    IF files = <<>> THEN [range |-> NoRange, count |-> 0]
    ELSE IF Len(files) = 1 THEN [range |-> NoRange, count |-> 1]
    ELSE LET frames == StableSort(FrameNumbers(files), FrameNumbers(files)) IN
         IF frames = <<>> THEN [range |-> NoRange, count |-> Len(files)]
         ELSE LET first == frames[1]
                  last == frames[Len(frames)]
                  expected_count == last - first + 1
                  actual_count == Len(frames)
              IN  [range |-> RangeString(first, last, actual_count,
                                         expected_count),
                   count |-> actual_count]

\* discovery._detect_frame_range: the same steps on FRAME_RE
detect_frame_range(files) ==
    IF files = <<>> THEN [range |-> NoRange, count |-> 0]
    ELSE IF Len(files) = 1 THEN [range |-> NoRange, count |-> 1]
    ELSE LET frames == StableSort(FrameNumbers(files), FrameNumbers(files)) IN
         IF frames = <<>> THEN [range |-> NoRange, count |-> Len(files)]
         ELSE LET first == frames[1]
                  last == frames[Len(frames)]
                  expected == last - first + 1
                  actual == Len(frames)
              IN  [range |-> RangeString(first, last, actual, expected),
                   count |-> actual]

Digits(n) == <<n \div 1000, (n \div 100) % 10, (n \div 10) % 10, n % 10>>

\* hero.<n>.exr for a four-digit n
FrameFile(stem, n) == FileEntry(PathName(FALSE, stem, <<>>, Digits(n), "exr"), 1000 + n)

\* files a version folder can hold: frames of one sequence with a gap, a
\* frame of a second sequence, a frame padded to five digits, a file with
\* two digits before the extension, and files without a frame number
FramePool ==
    { FrameFile("hero", 1001), FrameFile("hero", 1002),
      FrameFile("hero", 1004), FrameFile("comp", 1001),
      FileEntry(PathName(FALSE, "hero", <<>>, <<0, 1, 0, 0, 2>>, "exr"), 7),
      FileEntry(PathName(FALSE, "hero", <<>>, <<1, 2>>, "exr"), 7),
      FileEntry(PathName(FALSE, "hero", <<>>, <<>>, "exr"), 7),
      FileEntry(PathName(FALSE, "hero", <<>>, <<>>, "mov"), 7) }

\* hero.1001.exr .. hero.1010.exr
TenFrames == {FrameFile("hero", 1000 + i) : i \in 1..10}

\* the idle values of everything but the directory read
Quiet ==
    /\ fs = [p \in {"final", "tmp", "bak"} |-> Absent]
    /\ cfg = [link_mode |-> "copy", template |-> "", version |-> VSmall,
              callback |-> FALSE]
    /\ target = NoFiles
    /\ tdir = TRUE
    /\ locked = {}
    /\ src_bad = {}
    /\ PromoterIdle
    /\ arg = NoCall
    /\ ret = NoCall
    /\ gui = MainWindow
    /\ pc = "idle"
    /\ exc = "none"
    /\ h_entry = NoEntry
    /\ h_data = <<>>
    /\ clock = 0
    /\ calls = 0
    /\ rd_seen = [taken |-> FALSE]
    /\ prev_file = Absent
    /\ hist_before = <<>>
    /\ renamed = FALSE

InitFrames ==
    /\ tree \in (SUBSET FramePool) \cup {TenFrames}
    /\ Quiet

\* VersionScanner._detect_frame_range(files) on the sorted files of a folder
ScannerDetectFrameRange ==
    /\ arg' = [op |-> "scanner._detect_frame_range",
               files |-> SortedEntries(tree)]
    /\ ret' = scanner_detect_frame_range(SortedEntries(tree))
    /\ UNCHANGED <<pc, exc, clock, calls, histVars, promVars, tree, gui>>

\* discovery._detect_frame_range(files) on the same files
DetectFrameRange ==
    /\ arg' = [op |-> "discovery._detect_frame_range",
               files |-> SortedEntries(tree)]
    /\ ret' = detect_frame_range(SortedEntries(tree))
    /\ UNCHANGED <<pc, exc, clock, calls, histVars, promVars, tree, gui>>

NextFrames ==
    \/ ScannerDetectFrameRange
    \/ DetectFrameRange

SpecFrames == InitFrames /\ [][NextFrames]_vars

FrameRangeReturned ==
    arg.op \in {"scanner._detect_frame_range", "discovery._detect_frame_range"}

\* the files of the call that carry a frame number, and the numbers
Framed == {i \in 1..Len(arg.files) : HasFrame(arg.files[i].name)}
FramesOf == {IntOf(arg.files[i].name.frame) : i \in Framed}

\* C18: when fewer than two of the files carry a frame number, no frame
\* range is returned.
C18_RangeNeedsTwoFrames ==
    (FrameRangeReturned /\ Cardinality(Framed) < 2) => ret.range = NoRange

\* C19: a returned range is first-last of the frame numbers; it carries the
\* marker (actual/expected) exactly when the frame count is less than
\* last - first + 1, and never when no number between first and last is
\* missing.
C19_GapMarker ==
    (FrameRangeReturned /\ ret.range # NoRange) =>
        LET first == CHOOSE x \in FramesOf : \A y \in FramesOf : x <= y
            last == CHOOSE x \in FramesOf : \A y \in FramesOf : y <= x
        IN  /\ ret.range.first = first
            /\ ret.range.last = last
            /\ ret.range.marker # <<>> <=> ret.count < last - first + 1
            /\ ret.range.marker # <<>> => ret.range.marker = <<ret.count, last - first + 1>>
            /\ (\A n \in first..last : n \in FramesOf) => ret.range.marker = <<>>

---------------------------------------------------------------------------
(* VersionScanner.scan() *)

\* _extract_version returns None
NoVersion == -1

\* a scan of one entry returns None
NoInfo == [none |-> TRUE]

\* _extract_version(name): int(match.group(1)), or None
extract_version(name) == IF HasVersion(name) THEN IntOf(name.v) ELSE NoVersion

MediaFilesOf(folder) ==
    {c \in folder.children :
        c.kind = "file" /\ c.name.ext \in valid_extensions}

\* _collect_files(folder): os.scandir, PermissionError swallowed, any other
\* error let through; files.sort()
collect_files(folder) ==
    IF folder.status = "denied" THEN [exc |-> "none", files |-> <<>>]
    ELSE IF folder.status = "gone"
    THEN [exc |-> "FileNotFoundError", files |-> <<>>]
    ELSE [exc |-> "none", files |-> SortedEntries(MediaFilesOf(folder))]

\* _scan_version_folder(folder)
scan_version_folder(folder) ==
    IF extract_version(folder.name) = NoVersion
    THEN [exc |-> "none", info |-> NoInfo]
    ELSE LET c == collect_files(folder) IN
         IF c.exc # "none" THEN [exc |-> c.exc, info |-> NoInfo]
         ELSE IF c.files = <<>> THEN [exc |-> "none", info |-> NoInfo]
         ELSE LET fr == scanner_detect_frame_range(c.files) IN
              [exc |-> "none",
               info |-> VersionInfo(extract_version(folder.name),
                                    folder.name, fr.range, fr.count,
                                    Len(c.files), SumSizes(c.files))]

\* _scan_version_file(filepath)
scan_version_file(file) ==
    IF file.name.ext \notin valid_extensions
    THEN [exc |-> "none", info |-> NoInfo]
    ELSE IF extract_version(file.name) = NoVersion
    THEN [exc |-> "none", info |-> NoInfo]
    ELSE [exc |-> "none",
          info |-> VersionInfo(extract_version(file.name), file.name,
                               NoRange, 1, 1, file.size)]

\* scan() on the entries of an existing source directory: every entry in
\* name order, then versions.sort(key=version_number)
scan(entries) ==
    LET es == SortedEntries(entries)
        one == [i \in 1..Len(es) |->
                   IF es[i].kind = "dir" THEN scan_version_folder(es[i])
                   ELSE scan_version_file(es[i])]
        bad == {i \in 1..Len(es) : one[i].exc # "none"}
        found == SelectSeq([i \in 1..Len(es) |-> one[i].info],
                           LAMBDA v : v # NoInfo)
    IN  IF bad # {}
        THEN [raised |-> one[CHOOSE i \in bad : \A j \in bad : i <= j].exc,
              versions |-> <<>>]
        ELSE [raised |-> "none",
              versions |-> StableSort(found,
                               [i \in 1..Len(found) |->
                                   found[i].version_number])]

VersionDir(stem, v, status, files) == DirEntry(PathName(FALSE, stem, v, <<>>, ""), status, files)

\* entries a source directory can hold: version folders with frames, with
\* one movie, with no media; the same number written v3 and v003, as a
\* folder and as a bare file; a folder without version; unreadable folders
ScanPool ==
    { VersionDir("hero", <<0, 0, 1>>, "ok", {FrameFile("hero", 1001), FrameFile("hero", 1002)}),
      VersionDir("hero", <<0, 0, 2>>, "ok", {FileEntry(PathName(FALSE, "hero", <<0, 0, 2>>, <<>>, "mov"), 9)}),
      VersionDir("hero", <<0, 0, 3>>, "ok", {FrameFile("hero", 1001), FrameFile("hero", 1002), FrameFile("hero", 1004)}),
      VersionDir("hero", <<3>>, "ok", {FrameFile("hero", 1001)}),
      VersionDir("hero", <<0, 0, 4>>, "ok", {FileEntry(PathName(FALSE, "notes", <<>>, <<>>, "txt"), 1)}),
      VersionDir("misc", <<>>, "ok", {FrameFile("hero", 1001)}),
      FileEntry(PathName(FALSE, "hero", <<0, 0, 3>>, <<>>, "mov"), 9),
      FileEntry(PathName(FALSE, "hero", <<0, 0, 5>>, <<>>, "mov"), 9),
      FileEntry(PathName(FALSE, "hero", <<0, 0, 6>>, <<>>, "txt"), 1),
      VersionDir("hero", <<0, 0, 7>>, "denied", {FrameFile("hero", 1001)}),
      VersionDir("hero", <<0, 0, 8>>, "gone", {}) }

\* entries of the source directory: at most MaxEntries of the pool
MaxEntries == 3

InitScan ==
    /\ tree \in {S \in SUBSET ScanPool : Cardinality(S) <= MaxEntries}
    /\ Quiet

\* a caller calls scan(); a source directory that does not exist gives []
ScannerScan ==
    /\ arg.op = "none"
    /\ \E exists \in (IF tree = {} THEN BOOLEAN ELSE {TRUE}) :
          /\ arg' = [op |-> "scan", exists |-> exists]
          /\ ret' = IF exists THEN scan(tree)
                    ELSE [raised |-> "none", versions |-> <<>>]
    /\ UNCHANGED <<pc, exc, clock, calls, histVars, promVars, tree, gui>>

NextScan == ScannerScan

SpecScan == InitScan /\ [][NextScan]_vars

\* C14: the list scan() returns is strictly ascending by version_number.
C14_StrictlyAscending ==
    (arg.op = "scan" /\ ret.raised = "none") =>
        \A i, j \in 1..Len(ret.versions) :
            i < j => ret.versions[i].version_number
                        < ret.versions[j].version_number

---------------------------------------------------------------------------
(* discover(root_dir, max_depth) and _walk_for_versions (discovery.py) *)

\* min(8, len(versioned_dirs))
POOL_WORKERS == 8

NoResults == [exc |-> "none", results |-> <<>>]

\* _collect_media_files(folder, extensions): as VersionScanner._collect_files
collect_media_files(folder) ==
    IF folder.status = "denied" THEN [exc |-> "none", files |-> <<>>]
    ELSE IF folder.status = "gone"
    THEN [exc |-> "FileNotFoundError", files |-> <<>>]
    ELSE [exc |-> "none", files |-> SortedEntries(MediaFilesOf(folder))]

\* _scan_version_dir(vdir, ver_num, extensions)
scan_version_dir(vdir) ==
    LET c == collect_media_files(vdir)
        fr == detect_frame_range(c.files)
    IN  IF c.exc # "none" THEN [exc |-> c.exc, info |-> NoInfo]
        ELSE [exc |-> "none",
              info |-> VersionInfo(IntOf(vdir.name.v), vdir.name, fr.range,
                                   fr.count, Len(c.files),
                                   SumSizes(c.files))]

Reverse(seq) == [i \in 1..Len(seq) |-> seq[Len(seq) + 1 - i]]

ByNumber(versions) ==
    StableSort(versions,
               [i \in 1..Len(versions) |-> versions[i].version_number])

\* DiscoveryResult(path, name, versions_found, ..., sample_filename); the
\* suggested pattern is "_v{version}" for every name here
DiscoveryResult(path, versions, extensions, sample) == [path |-> path, versions_found |-> versions, suggested_extensions |-> extensions, sample_filename |-> sample]

\* the block "if versioned_dirs:": the directories are scanned in a pool
\* when there are two or more (an error of one is logged and skipped; they
\* complete in the order submitted or, reversed, in the opposite one), and
\* inline when there is one; then the sample file of the first is read
report_versioned_dirs(path, vdirs, reversed) ==
    LET scans == [i \in 1..Len(vdirs) |-> scan_version_dir(vdirs[i])]
        worker_count == IF Len(vdirs) < POOL_WORKERS THEN Len(vdirs)
                        ELSE POOL_WORKERS
        done == IF reversed THEN Reverse(scans) ELSE scans
        good == SelectSeq(done, LAMBDA r : r.exc = "none")
        versions == [i \in 1..Len(good) |-> good[i].info]
        exts == UNION {{f.name.ext : f \in MediaFilesOf(vdirs[i])} :
                          i \in {j \in 1..Len(vdirs) : scans[j].exc = "none"
                                    /\ vdirs[j].status = "ok"}}
        sample == collect_media_files(vdirs[1])
    IN  IF worker_count <= 1 /\ scans[1].exc # "none"
        THEN [exc |-> scans[1].exc, results |-> <<>>]
        ELSE IF sample.exc # "none"
        THEN [exc |-> sample.exc, results |-> <<>>]
        ELSE [exc |-> "none",
              results |-> <<DiscoveryResult(path, ByNumber(versions), exts,
                               IF sample.files = <<>> THEN ""
                               ELSE sample.files[1].name)>>]

\* the block "if versioned_files and not versioned_dirs:": one VersionInfo
\* per version number, counting and adding up the files of that number
report_versioned_files(path, vfiles) ==
    LET num(i) == IntOf(vfiles[i].name.v)
        firsts == SelectSeq([i \in 1..Len(vfiles) |-> i],
                            LAMBDA i : \A j \in 1..(i - 1) : num(j) # num(i))
        same(i) == SelectSeq(vfiles, LAMBDA f : IntOf(f.name.v) = num(i))
        versions == [k \in 1..Len(firsts) |->
                        VersionInfo(num(firsts[k]), vfiles[firsts[k]].name,
                                    NoRange, 0, Len(same(firsts[k])),
                                    SumSizes(same(firsts[k])))]
    IN  [exc |-> "none",
         results |-> <<DiscoveryResult(path, ByNumber(versions),
                                       {f.name.ext : f \in {vfiles[i] : i \in 1..Len(vfiles)}},
                                       vfiles[1].name)>>]

too_deep_at(depth, max_depth) == depth >= max_depth

\* if depth > max_depth: return
too_deep(depth, max_depth) == depth > max_depth

RECURSIVE walk_for_versions(_, _, _, _, _)
RECURSIVE walk_subdirs(_, _, _, _, _)

\* _walk_for_versions(current, root, depth, max_depth, extensions, results):
\* the results it appends, or the exception that leaves it
walk_for_versions(current, path, depth, max_depth, reversed) ==
    IF too_deep(depth, max_depth) THEN NoResults
    ELSE IF current.status = "denied" THEN NoResults
    ELSE IF current.status = "gone"
    THEN [exc |-> "FileNotFoundError", results |-> <<>>]
    ELSE LET entries == SelectSeq(SortedEntries(current.children),
                                  LAMBDA e : ~e.name.dot)
             versioned_dirs ==
                 SelectSeq(entries,
                           LAMBDA e : e.kind = "dir" /\ HasVersion(e.name))
             subdirs ==
                 SelectSeq(entries,
                           LAMBDA e : e.kind = "dir" /\ ~HasVersion(e.name))
             versioned_files ==
                 SelectSeq(entries,
                           LAMBDA e : /\ e.kind = "file"
                                      /\ e.name.ext \in valid_extensions
                                      /\ HasVersion(e.name))
             here == IF versioned_dirs # <<>>
                     THEN report_versioned_dirs(path, versioned_dirs,
                                                reversed)
                     ELSE IF versioned_files # <<>>
                     THEN report_versioned_files(path, versioned_files)
                     ELSE NoResults
         IN  IF here.exc # "none" THEN here
             ELSE LET below == walk_subdirs(subdirs, path, depth + 1,
                                            max_depth, reversed)
                  IN  [exc |-> below.exc,
                       results |-> here.results \o below.results]

\* for subdir in subdirs: _walk_for_versions(subdir, ...)
walk_subdirs(subdirs, path, depth, max_depth, reversed) ==
    IF subdirs = <<>> THEN NoResults
    ELSE LET first == walk_for_versions(subdirs[1],
                          Append(path, subdirs[1].name), depth, max_depth,
                          reversed)
         IN  IF first.exc # "none" THEN first
             ELSE LET rest == walk_subdirs(Tail(subdirs), path, depth,
                                           max_depth, reversed)
                  IN  [exc |-> rest.exc,
                       results |-> first.results \o rest.results]

\* the characters of a path, each name followed by the separator
RECURSIVE PathText(_)
PathText(path) ==
    IF path = <<>> THEN <<>>
    ELSE PathKey(path[1]) \o <<0>> \o PathText(Tail(path))

\* results.sort(key=lambda r: r.path)
ByPath(results) ==
    [k \in 1..Len(results) |->
        results[CHOOSE i \in 1..Len(results) :
                   Cardinality({j \in 1..Len(results) :
                       \/ LexLess(PathText(results[j].path),
                                  PathText(results[i].path))
                       \/ results[j].path = results[i].path /\ j < i})
                       = k - 1]]

RootName == PathName(FALSE, "shots", <<>>, <<>>, "")

\* discover(root_dir, max_depth) without whitelist and blacklist, on a root
\* directory holding `entries`
discover(entries, max_depth, reversed) ==
    LET w == walk_for_versions(DirEntry(RootName, "ok", entries),
                               <<RootName>>, 0, max_depth, reversed)
    IN  IF w.exc # "none" THEN [raised |-> w.exc, results |-> <<>>]
        ELSE [raised |-> "none", results |-> ByPath(w.results)]

\* what a directory of a project tree can hold: version folders that are
\* complete, empty of media, vanished, unreadable, dot-prefixed, or holding
\* a project of their own; versioned files; plain, dot-prefixed, vanished
\* and unreadable folders
TreePool ==
    { VersionDir("hero", <<0, 0, 1>>, "ok", {FrameFile("hero", 1001), FrameFile("hero", 1002)}),
      VersionDir("hero", <<0, 0, 2>>, "ok", {FileEntry(PathName(FALSE, "hero", <<0, 0, 2>>, <<>>, "mov"), 9)}),
      VersionDir("hero", <<0, 0, 3>>, "ok", {FileEntry(PathName(FALSE, "notes", <<>>, <<>>, "txt"), 1)}),
      VersionDir("hero", <<0, 0, 4>>, "gone", {}),
      VersionDir("hero", <<0, 0, 5>>, "denied", {FrameFile("hero", 1001)}),
      DirEntry(PathName(TRUE, "hero", <<0, 0, 6>>, <<>>, ""), "ok", {FrameFile("hero", 1001)}),
      VersionDir("hero", <<0, 0, 7>>, "ok",
                 {FrameFile("hero", 1001),
                  DirEntry(PathName(FALSE, "renders", <<>>, <<>>, ""), "ok",
                           {VersionDir("hero", <<0, 0, 1>>, "ok", {FrameFile("hero", 1001)})})}),
      FileEntry(PathName(FALSE, "hero", <<0, 0, 1>>, <<>>, "mov"), 9),
      FileEntry(PathName(FALSE, "hero", <<0, 0, 1>>, <<>>, "exr"), 5),
      FileEntry(PathName(FALSE, "hero", <<0, 0, 2>>, <<>>, "mov"), 9),
      FileEntry(PathName(FALSE, "hero", <<0, 0, 3>>, <<>>, "txt"), 1),
      DirEntry(PathName(FALSE, "misc", <<>>, <<>>, ""), "ok",
               {VersionDir("hero", <<0, 0, 2>>, "ok", {FileEntry(PathName(FALSE, "hero", <<0, 0, 2>>, <<>>, "mov"), 9)})}),
      DirEntry(PathName(TRUE, "misc", <<>>, <<>>, ""), "ok",
               {VersionDir("hero", <<0, 0, 2>>, "ok", {FileEntry(PathName(FALSE, "hero", <<0, 0, 2>>, <<>>, "mov"), 9)})}),
      DirEntry(PathName(FALSE, "comp", <<>>, <<>>, ""), "gone", {}),
      DirEntry(PathName(FALSE, "comp", <<>>, <<>>, ""), "denied",
               {VersionDir("hero", <<0, 0, 1>>, "ok", {FrameFile("hero", 1001)})}) }

MaxChildren == 2

MaxDepths == {1, 2, 3}

\* the directories of the pool, no two entries of one sharing a name
Folders ==
    {S \in SUBSET TreePool :
        /\ Cardinality(S) <= MaxChildren
        /\ \A a, b \in S : a.name = b.name => a = b}

\* shots/<entries>, and shots/hero/renders/<entries>
Nested(S) == {DirEntry(PathName(FALSE, "hero", <<>>, <<>>, ""), "ok", {DirEntry(PathName(FALSE, "renders", <<>>, <<>>, ""), "ok", S)})}

InitDiscover ==
    /\ tree \in Folders \cup {Nested(S) : S \in Folders}
    /\ Quiet

\* a caller calls discover(root_dir, max_depth); a root that does not
\* exist gives []
Discover ==
    /\ arg.op = "none"
    /\ \E exists \in (IF tree = {} THEN BOOLEAN ELSE {TRUE}),
          max_depth \in MaxDepths, reversed \in BOOLEAN :
          /\ arg' = [op |-> "discover", exists |-> exists,
                     max_depth |-> max_depth]
          /\ ret' = IF exists THEN discover(tree, max_depth, reversed)
                    ELSE [raised |-> "none", results |-> <<>>]
    /\ UNCHANGED <<pc, exc, clock, calls, histVars, promVars, tree, gui>>

NextDiscover == Discover \/ ScannerScan

SpecDiscover == InitDiscover /\ [][NextDiscover]_vars

\* C15: neither scan() nor discover() yields a VersionInfo with no file: a
\* version-named directory without a file of a configured extension gives
\* no entry, so every entry returned has file_count > 0.
C15_NoEmptyVersion ==
    /\ arg.op = "scan" =>
          \A i \in 1..Len(ret.versions) : ret.versions[i].file_count > 0
    /\ arg.op = "discover" =>
          \A i \in 1..Len(ret.results) :
             \A k \in 1..Len(ret.results[i].versions_found) :
                ret.results[i].versions_found[k].file_count > 0

\* C16: an error while one directory is listed or one version directory is
\* scanned never aborts discover(): no exception leaves it.
C16_ErrorsContained == arg.op = "discover" => ret.raised = "none"

\* every directory of the tree under `node`, with its path, its depth and
\* whether each directory on the way to it could be listed and neither it
\* nor a directory on the way is version-named or dot-prefixed
RECURSIVE DirsBelow(_, _, _, _)
DirsBelow(node, path, depth, walked) ==
    {[path |-> path, depth |-> depth, dir |-> node, walked |-> walked]}
    \cup UNION {DirsBelow(c, Append(path, c.name), depth + 1,
                          /\ walked
                          /\ node.status = "ok"
                          /\ ~c.name.dot
                          /\ ~HasVersion(c.name)) :
                   c \in {e \in node.children : e.kind = "dir"}}

AllDirs == DirsBelow(DirEntry(RootName, "ok", tree), <<RootName>>, 0, TRUE)

VersionNamedDirs(d) == {c \in d.children : c.kind = "dir" /\ HasVersion(c.name)}

VisibleVersionDirs(d) == {c \in VersionNamedDirs(d) : ~c.name.dot}

DiscoverReturned == arg.op = "discover" /\ arg.exists /\ ret.raised = "none"

ResultsFor(path) == {i \in 1..Len(ret.results) : ret.results[i].path = path}

\* the versions of a result come from the directories `vdirs`, one of each
\* that could be scanned, ascending by number
VersionsFrom(r, vdirs) ==
    LET vs == r.versions_found
    IN  /\ \A k \in 1..Len(vs) : vs[k].source_path \in {c.name : c \in vdirs}
        /\ \A j, k \in 1..Len(vs) :
              j < k => /\ vs[j].source_path # vs[k].source_path
                       /\ vs[j].version_number <= vs[k].version_number
        /\ \A c \in vdirs :
              c.status # "gone" =>
                 \E k \in 1..Len(vs) :
                    /\ vs[k].source_path = c.name
                    /\ vs[k].version_number = IntOf(c.name.v)

\* no result is a version-named or dot-prefixed directory or lies below one
NoHiddenLocation ==
    \A i \in 1..Len(ret.results) :
       \A k \in 2..Len(ret.results[i].path) :
          /\ ~ret.results[i].path[k].dot
          /\ ~HasVersion(ret.results[i].path[k])

\* no result lies deeper than max_depth
NoDeepLocation ==
    \A i \in 1..Len(ret.results) :
       Len(ret.results[i].path) - 1 <= arg.max_depth

\* a result made of versioned files
OfFiles(r) == \E k \in 1..Len(r.versions_found) : r.versions_found[k].source_path.ext # ""

\* C17 as stated: every directory P at depth <= max_depth that contains a
\* version-named subdirectory has exactly one DiscoveryResult, with the
\* versions of those subdirectories ascending; version-named and
\* dot-prefixed entries are no locations; files are grouped only where P
\* has no versioned subdirectory; nothing deeper than max_depth is reported.
C17_OneResultPerLocation ==
    DiscoverReturned =>
       /\ \A P \in AllDirs :
             (P.depth <= arg.max_depth /\ VersionNamedDirs(P.dir) # {}) =>
                /\ Cardinality(ResultsFor(P.path)) = 1
                /\ \A i \in ResultsFor(P.path) :
                      VersionsFrom(ret.results[i], VersionNamedDirs(P.dir))
       /\ NoHiddenLocation
       /\ \A P \in AllDirs :
             \A i \in ResultsFor(P.path) :
                OfFiles(ret.results[i]) => VersionNamedDirs(P.dir) = {}
       /\ NoDeepLocation

\* C17 amended: the first part holds for the directories P the walk lists,
\* those reached from the root through listable directories none of which
\* is version-named or dot-prefixed, and for the version-named
\* subdirectories of P that are not dot-prefixed; the rest as stated.
C17_OneResultPerLocationAmended ==
    DiscoverReturned =>
       /\ \A P \in AllDirs :
             (/\ P.walked
              /\ P.dir.status = "ok"
              /\ P.depth <= arg.max_depth
              /\ VisibleVersionDirs(P.dir) # {}) =>
                /\ Cardinality(ResultsFor(P.path)) = 1
                /\ \A i \in ResultsFor(P.path) :
                      VersionsFrom(ret.results[i], VisibleVersionDirs(P.dir))
       /\ NoHiddenLocation
       /\ \A P \in AllDirs :
             \A i \in ResultsFor(P.path) :
                OfFiles(ret.results[i]) => VisibleVersionDirs(P.dir) = {}
       /\ NoDeepLocation

\* renders, at depth max_depth, is reported with its two versions
C17_Witness ==
    /\ DiscoverReturned
    /\ arg.max_depth = 2
    /\ \E i \in 1..Len(ret.results) :
          /\ Len(ret.results[i].path) = 3
          /\ Len(ret.results[i].versions_found) = 2
          /\ ~OfFiles(ret.results[i])

---------------------------------------------------------------------------
(* _decode_smpte_timecode(data) (timecode.py) *)

NoTimecode == [none |-> TRUE]

\* x >> n
Shr(x, n) == x \div (2 ^ n)

\* x & mask, for the masks 0x03, 0x07 and 0x0F
BitAnd(x, mask) == x % (mask + 1)

\* struct.unpack("<I", data[:4])[0]
unpack_u32_le(data) == data[1] + data[2] * 256 + data[3] * 65536 + data[4] * 16777216

\* f"{n:02d}": the decimal digits of n, at least two of them
RECURSIVE DecimalDigits(_)
DecimalDigits(n) == IF n < 10 THEN <<n>> ELSE Append(DecimalDigits(n \div 10), (n % 10))

Format02d(n) == IF n < 10 THEN <<0, n>> ELSE DecimalDigits(n)

\* f"{hours:02d}:{minutes:02d}:{seconds:02d}:{frames:02d}"
TimecodeString(hours, minutes, seconds, frames) == [hh |-> Format02d(hours), mm |-> Format02d(minutes), ss |-> Format02d(seconds), ff |-> Format02d(frames)]

\* the mask of the tens digit: 0x03 for frames and hours, 0x07 for seconds
\* and minutes
tens_mask(field) == IF field \in {"frames", "hours"} THEN 3 ELSE 7

decode_smpte_timecode(data) ==
    IF Len(data) < 8 THEN NoTimecode
    ELSE LET tc_packed == unpack_u32_le(data)
             frames == BitAnd(tc_packed, 15)
                          + BitAnd(Shr(tc_packed, 4), tens_mask("frames")) * 10
             seconds == BitAnd(Shr(tc_packed, 8), 15)
                          + BitAnd(Shr(tc_packed, 12), tens_mask("seconds")) * 10
             minutes == BitAnd(Shr(tc_packed, 16), 15)
                          + BitAnd(Shr(tc_packed, 20), tens_mask("minutes")) * 10
             hours == BitAnd(Shr(tc_packed, 24), 15)
                          + BitAnd(Shr(tc_packed, 28), tens_mask("hours")) * 10
         IN  IF hours > 23 \/ minutes > 59 \/ seconds > 59 \/ frames > 59
             THEN NoTimecode
             ELSE TimecodeString(hours, minutes, seconds, frames)

\* the byte that holds the two decimal digits of a field in BCD
Bcd(tens, units) == tens * 16 + units

\* bytes of a field: 00, 01, 0F, 23, 24, 59, 61; the words stay below 2^31
FieldBytes == {Bcd(0, 0), Bcd(0, 1), Bcd(0, 15), Bcd(2, 3), Bcd(2, 4), Bcd(5, 9), Bcd(6, 1)}

\* the eight bytes of the attribute, or the four a truncated file gives
TimecodeData ==
    {<<f, s, m, h, 0, 0, 0, 0>> : f \in FieldBytes, s \in FieldBytes, m \in FieldBytes, h \in FieldBytes}
    \cup {<<0, 0, 0, 1>>}

InitTimecode ==
    /\ tree \in TimecodeData
    /\ Quiet

\* _read_exr_timecode() finds the timeCode attribute and decodes its value
DecodeSmpteTimecode ==
    /\ arg.op = "none"
    /\ arg' = [op |-> "decode_smpte_timecode", data |-> tree]
    /\ ret' = decode_smpte_timecode(tree)
    /\ UNCHANGED <<pc, exc, clock, calls, histVars, promVars, tree, gui>>

NextTimecode == DecodeSmpteTimecode

SpecTimecode == InitTimecode /\ [][NextTimecode]_vars

\* the number a byte encodes in BCD: its high digit times ten plus its low
Encoded(byte) == (byte \div 16) * 10 + (byte % 16)

\* C20: the word encoding hours=01, minutes=00, seconds=00, frames=00
\* decodes to "01:00:00:00", and every word whose encoded hours exceed 23,
\* or minutes, seconds or frames exceed 59, decodes to no timecode.
C20_BcdDecode ==
    (arg.op = "decode_smpte_timecode" /\ Len(arg.data) = 8) =>
       /\ arg.data = <<0, 0, 0, 1, 0, 0, 0, 0>> =>
             ret = TimecodeString(1, 0, 0, 0)
       /\ (\/ Encoded(arg.data[4]) > 23
           \/ Encoded(arg.data[3]) > 59
           \/ Encoded(arg.data[2]) > 59
           \/ Encoded(arg.data[1]) > 59) => ret = NoTimecode

---------------------------------------------------------------------------
(* _read_exr_timecode(file_path) and extract_timecode(file_path)
   (timecode.py) *)

\* an attribute of an EXR header: name, type, declared size, and the value
\* read for it
Attr(name, type, size, value) == [name |-> name, type |-> type, size |-> size, value |-> value]

\* the text of a string attribute after rstrip(b"\x00"), decode and strip():
\* its parts between separators, each a sequence of characters (a digit
\* 0..9, or -1 for any other character), and whether a separator is ";"
Text(parts, semi) == [parts |-> parts, semi |-> semi]

RECURSIVE SumLen(_)
SumLen(parts) == IF parts = <<>> THEN 0 ELSE Len(parts[1]) + SumLen(Tail(parts))

\* len(s)
TextLen(s) == IF s.parts = <<>> THEN 0 ELSE SumLen(s.parts) + Len(s.parts) - 1

\* p.isdigit()
isdigit(p) == p # <<>> /\ \A i \in 1..Len(p) : p[i] \in 0..9

\* len(parts) == 4 and all(p.isdigit() for p in parts)
parts_ok(s) == Len(s.parts) = 4 /\ \A i \in 1..4 : isdigit(s.parts[i])

\* _is_valid_timecode_string(s)
is_valid_timecode_string(s) ==
    IF TextLen(s) = 0 \/ TextLen(s) < 8 THEN FALSE
    ELSE parts_ok(s)

\* the string itself, as the value returned
AsTimecode(s) ==
    IF s.semi
    THEN [hh |-> s.parts[1], mm |-> s.parts[2], ss |-> s.parts[3], ff |-> s.parts[4], semi |-> TRUE]
    ELSE [hh |-> s.parts[1], mm |-> s.parts[2], ss |-> s.parts[3], ff |-> s.parts[4]]

\* a or b
Or(a, b) == IF a # NoTimecode THEN a ELSE b

\* the loop over the attributes of the header, from the i-th on
RECURSIVE exr_loop(_, _, _, _)
exr_loop(attrs, i, tc_smpte, tc_nuke_str) ==
    IF i > Len(attrs) THEN Or(tc_smpte, tc_nuke_str)
    ELSE LET a == attrs[i]
             is_smpte == a.name = "timeCode" /\ a.type = "timecode" /\ a.size = 8
             is_nuke == /\ ~is_smpte
                        /\ a.name = "nuke/input/timecode"
                        /\ a.type = "string"
                        /\ a.size <= 32
             smpte == IF is_smpte THEN decode_smpte_timecode(a.value)
                      ELSE tc_smpte
             nuke == IF is_nuke
                     THEN IF is_valid_timecode_string(a.value)
                          THEN AsTimecode(a.value) ELSE NoTimecode
                     ELSE tc_nuke_str
         IN  IF smpte # NoTimecode /\ nuke # NoTimecode THEN Or(smpte, nuke)
             ELSE exr_loop(attrs, i + 1, smpte, nuke)

\* _read_exr_timecode(file_path): no timecode for a file that cannot be
\* opened or does not start with the EXR magic number
read_exr_timecode(content) ==
    IF ~content.readable \/ ~content.magic_ok THEN NoTimecode
    ELSE exr_loop(content.attrs, 1, NoTimecode, NoTimecode)

\* what a media file holds: an EXR header, and for a container what ffprobe
\* reports of it
Content(readable, magic_ok, attrs, ffprobe) == [readable |-> readable, magic_ok |-> magic_ok, attrs |-> attrs, ffprobe |-> ffprobe]

MediaFile(name, content) == [kind |-> "file", name |-> name, size |-> 1, content |-> content]

\* extract_timecode(file_path): .exr is parsed natively, any other file
\* goes to ffprobe (.dpx files are not part of this model)
extract_timecode(file) ==
    IF file.name.ext = "exr" THEN read_exr_timecode(file.content)
    ELSE file.content.ffprobe

Smpte(h, m, s, f) == Attr("timeCode", "timecode", 8, <<f, s, m, h, 0, 0, 0, 0>>)

Nuke(parts, semi) == Attr("nuke/input/timecode", "string", 11, Text(parts, semi))

\* attributes a header can hold: packed timecodes that are valid, out of
\* range and cut short; vendor strings that are valid, out of range, with a
\* ";", with a letter, with three parts, too short, too long; another one
AttrPool ==
    { Smpte(Bcd(0, 1), 0, 0, 0),
      Smpte(Bcd(2, 4), 0, 0, 0),
      Attr("timeCode", "timecode", 8, <<0, 0, 0, 1>>),
      Attr("timeCode", "timecode", 4, <<0, 0, 0, 1>>),
      Nuke(<<<<0, 2>>, <<0, 0>>, <<0, 0>>, <<0, 0>>>>, FALSE),
      Nuke(<<<<9, 9>>, <<7, 5>>, <<6, 1>>, <<9, 9>>>>, FALSE),
      Nuke(<<<<0, 2>>, <<0, 0>>, <<0, 0>>, <<0, 2>>>>, TRUE),
      Nuke(<<<<0, 2>>, <<0, 0>>, <<0, 0>>, <<-1, 0>>>>, FALSE),
      Nuke(<<<<0, 2>>, <<0, 0, 0>>, <<0, 0, 0>>>>, FALSE),
      Nuke(<<<<1>>, <<2>>, <<3>>, <<4>>>>, FALSE),
      Attr("nuke/input/timecode", "string", 40, Text(<<<<0, 2>>, <<0, 0>>, <<0, 0>>, <<0, 0>>>>, FALSE)),
      Attr("channels", "chlist", 18, <<>>) }

MaxAttrs == 2

RECURSIVE SeqsUpTo(_, _)
SeqsUpTo(S, n) ==
    IF n = 0 THEN {<<>>}
    ELSE LET shorter == SeqsUpTo(S, n - 1)
         IN  shorter \cup {Append(q, x) : q \in shorter, x \in S}

Headers ==
    {Content(TRUE, TRUE, attrs, NoTimecode) : attrs \in SeqsUpTo(AttrPool, MaxAttrs)}
    \cup {Content(TRUE, FALSE, <<Smpte(Bcd(0, 1), 0, 0, 0)>>, NoTimecode),
          Content(FALSE, TRUE, <<Smpte(Bcd(0, 1), 0, 0, 0)>>, NoTimecode)}

InitExr ==
    /\ tree \in {{MediaFile(PathName(FALSE, "hero", <<>>, Digits(1001), "exr"), c)} : c \in Headers}
    /\ Quiet

\* a caller asks for the timecode of the file
ExtractTimecode ==
    /\ arg.op = "none"
    /\ \E file \in tree :
          /\ arg' = [op |-> "extract_timecode", file |-> file]
          /\ ret' = extract_timecode(file)
    /\ UNCHANGED <<pc, exc, clock, calls, histVars, promVars, tree, gui>>

NextExr == ExtractTimecode

SpecExr == InitExr /\ [][NextExr]_vars

\* C29: a timecode extract_timecode returns for an .exr file has hours
\* <= 23, minutes <= 59, seconds <= 59 and frames <= 59, from the packed
\* attribute or from the vendor string; anything else gives no timecode.
C29_ExrTimecodeInRange ==
    (arg.op = "extract_timecode" /\ ret # NoTimecode) =>
       /\ IntOf(ret.hh) <= 23
       /\ IntOf(ret.mm) <= 59
       /\ IntOf(ret.ss) <= 59
       /\ IntOf(ret.ff) <= 59

---------------------------------------------------------------------------
(* populate_timecodes(versions) and extract_timecode_for_version
   (timecode.py) *)

\* the entry a path names in the directory, if there is one
Missing == [kind |-> "missing"]

Lookup(entries, name) ==
    IF \E e \in entries : e.name = name
    THEN CHOOSE e \in entries : e.name = name
    ELSE Missing

\* the loop "for f in sorted(source.iterdir())" from the i-th entry on
RECURSIVE first_timecode(_, _)
first_timecode(entries, i) ==
    IF i > Len(entries) THEN NoTimecode
    ELSE LET f == entries[i]
             tc == IF f.kind = "file" /\ ~f.name.dot
                   THEN extract_timecode(f) ELSE NoTimecode
         IN  IF tc # NoTimecode THEN tc ELSE first_timecode(entries, i + 1)

\* extract_timecode_for_version(source_path) with no file list given: the
\* timecode, or the exception of a directory that cannot be listed
extract_timecode_for_version(source) ==
    IF source.kind = "file"
    THEN [exc |-> "none", tc |-> extract_timecode(source)]
    ELSE IF source.kind = "dir"
    THEN IF source.status = "denied"
         THEN [exc |-> "PermissionError", tc |-> NoTimecode]
         ELSE IF source.status = "gone"
         THEN [exc |-> "FileNotFoundError", tc |-> NoTimecode]
         ELSE [exc |-> "none",
               tc |-> first_timecode(SortedEntries(source.children), 1)]
    ELSE [exc |-> "none", tc |-> NoTimecode]

\* populate_timecodes(versions): the list as the call leaves it, in place,
\* and the exception that ends it
RECURSIVE populate_timecodes(_, _, _)
populate_timecodes(versions, i, entries) ==
    IF i > Len(versions) THEN [raised |-> "none", versions |-> versions]
    ELSE IF versions[i].start_timecode # NoTimecode
    THEN populate_timecodes(versions, i + 1, entries)
    ELSE LET r == extract_timecode_for_version(
                      Lookup(entries, versions[i].source_path))
         IN  IF r.exc # "none"
             THEN [raised |-> r.exc, versions |-> versions]
             ELSE populate_timecodes(
                      [versions EXCEPT ![i].start_timecode = r.tc],
                      i + 1, entries)

\* an .exr file whose header carries the timecode h:00:00:00, or none (h = 0)
ExrFile(name, h) == MediaFile(name, Content(TRUE, TRUE, IF h = 0 THEN <<>> ELSE <<Smpte(Bcd(0, h), 0, 0, 0)>>, NoTimecode))

\* files of a version folder: two frames with or without a timecode, a
\* dot-prefixed frame with one, a text file
SequenceFiles ==
    {ExrFile(PathName(FALSE, "hero", <<>>, Digits(1001), "exr"), h) : h \in {0, 1}}
    \cup {ExrFile(PathName(FALSE, "hero", <<>>, Digits(1002), "exr"), h) : h \in {0, 2}}
    \cup {ExrFile(PathName(TRUE, "hero", <<>>, Digits(1000), "exr"), 3),
          MediaFile(PathName(FALSE, "comp", <<>>, <<>>, "txt"), Content(TRUE, FALSE, <<>>, NoTimecode))}

SequenceFolders ==
    {S \in SUBSET SequenceFiles : \A a, b \in S : a.name = b.name => a = b}

\* the versions of a source: a folder of frames (readable or not), a movie
\* for which ffprobe reports a timecode or none
SourceFolders ==
    {VersionDir("hero", <<0, 0, 1>>, "ok", S) : S \in SequenceFolders}
    \cup {VersionDir("hero", <<0, 0, 1>>, "denied", {})}

SourceMovies ==
    {MediaFile(PathName(FALSE, "hero", <<0, 0, 2>>, <<>>, "mov"), Content(TRUE, FALSE, <<>>, tc)) : tc \in {NoTimecode, TimecodeString(4, 0, 0, 0)}}

InitPopulate ==
    /\ tree \in {{}} \cup {{d} : d \in SourceFolders}
                \cup {{m} : m \in SourceMovies}
                \cup {{d, m} : d \in SourceFolders, m \in SourceMovies}
    /\ Quiet

\* the version list of an earlier scan: the folder, the movie, or both, each
\* with its timecode unset or already set
VersionLists ==
    LET info(name, tc) == [source_path |-> name, start_timecode |-> tc]
        dirs == {info(PathName(FALSE, "hero", <<0, 0, 1>>, <<>>, ""), tc) : tc \in {NoTimecode, TimecodeString(5, 0, 0, 0)}}
        movs == {info(PathName(FALSE, "hero", <<0, 0, 2>>, <<>>, "mov"), tc) : tc \in {NoTimecode, TimecodeString(5, 0, 0, 0)}}
    IN  {<<d>> : d \in dirs} \cup {<<m>> : m \in movs}
        \cup {<<d, m>> : d \in dirs, m \in movs}

\* the timecode column is shown: populate_timecodes(versions)
PopulateTimecodes ==
    /\ arg.op = "none"
    /\ \E versions \in VersionLists :
          /\ arg' = [op |-> "populate_timecodes", versions |-> versions]
          /\ ret' = populate_timecodes(versions, 1, tree)
    /\ UNCHANGED <<pc, exc, clock, calls, histVars, promVars, tree, gui>>

NextPopulate == PopulateTimecodes

SpecPopulate == InitPopulate /\ [][NextPopulate]_vars

\* the timecode of the first file with a configured extension, in sorted
\* order, of a folder; of the file itself for a single file
FirstMatchedTimecode(source) ==
    IF source.kind = "file" THEN extract_timecode(source)
    ELSE IF source.kind = "dir" /\ MediaFilesOf(source) # {}
    THEN extract_timecode(SortedEntries(MediaFilesOf(source))[1])
    ELSE NoTimecode

\* C21: populate_timecodes leaves every entry with a timecode unchanged and
\* sets every other entry to the timecode of the first matched file, in
\* sorted order, of its folder, or of the file itself; no other file of the
\* folder decides the value.
C21_FirstFileDecides ==
    (arg.op = "populate_timecodes" /\ ret.raised = "none") =>
       /\ Len(ret.versions) = Len(arg.versions)
       /\ \A i \in 1..Len(arg.versions) :
             IF arg.versions[i].start_timecode # NoTimecode
             THEN ret.versions[i] = arg.versions[i]
             ELSE /\ ret.versions[i].source_path = arg.versions[i].source_path
                  /\ ret.versions[i].start_timecode =
                        FirstMatchedTimecode(
                            Lookup(tree, arg.versions[i].source_path))

---------------------------------------------------------------------------
(* task tokens (task_tokens.py): names are sequences of characters, all in
   lower case *)

DIVIDERS == {"_", ".", "-"}

DigitChars == {"0", "1", "2", "3", "4", "5", "6", "7", "8", "9"}

\* \w: a letter, a digit or "_"
IsWord(c) == c \notin {".", "-"}

\* the pattern of compile_task_pattern(task_token) matches at the
\* (zero-based) position start: the body, each "%" one character that is
\* no divider, after a divider or the start and before a divider or the end
MatchAt(name, token, start) ==
    /\ start + Len(token) <= Len(name)
    /\ \A k \in 1..Len(token) :
          IF token[k] = "%" THEN name[start + k] \notin DIVIDERS
          ELSE name[start + k] = token[k]
    /\ start = 0 \/ name[start] \in DIVIDERS
    /\ start + Len(token) = Len(name) \/ name[start + Len(token) + 1] \in DIVIDERS

\* pattern.finditer(name): the matches from position pos on, left to right,
\* none overlapping another
RECURSIVE finditer(_, _, _)
finditer(name, token, pos) ==
    IF pos + Len(token) > Len(name) THEN <<>>
    ELSE IF MatchAt(name, token, pos)
    THEN <<[token |-> token, start |-> pos, end |-> pos + Len(token)]>>
            \o finditer(name, token, pos + Len(token))
    ELSE finditer(name, token, pos + 1)

RECURSIVE all_matches(_, _)
all_matches(name, task_patterns) ==
    IF task_patterns = <<>> THEN <<>>
    ELSE finditer(name, task_patterns[1], 0)
            \o all_matches(name, Tail(task_patterns))

\* find_task_tokens(name, task_patterns): sorted by start
find_task_tokens(name, task_patterns) ==
    LET results == all_matches(name, task_patterns)
    IN  StableSort(results, [i \in 1..Len(results) |-> results[i].start])

Min(a, b) == IF a < b THEN a ELSE b

\* result[:start] + result[end:]
Cut(result, start, end) == SubSeq(result, 1, start) \o SubSeq(result, end + 1, Len(result))

\* re.sub(r"[_.\-]{2,}", lambda m: m.group()[0], result) on the positions
\* `result` of the characters of `name`: of a run of dividers the first stays
collapse(name, result) ==
    SelectSeq(result,
              LAMBDA p : ~(/\ name[p] \in DIVIDERS
                           /\ \E i \in 2..Len(result) :
                                 result[i] = p /\ name[result[i - 1]] \in DIVIDERS))

\* result.strip(DIVIDERS)
RECURSIVE strip(_, _)
strip(name, result) ==
    IF result = <<>> THEN result
    ELSE IF name[result[1]] \in DIVIDERS THEN strip(name, Tail(result))
    ELSE IF name[result[Len(result)]] \in DIVIDERS
    THEN strip(name, SubSeq(result, 1, Len(result) - 1))
    ELSE result

\* the loop "for m in reversed(matches)", from the i-th match downwards
RECURSIVE remove_matches(_, _, _, _)
remove_matches(name, matches, i, result) ==
    IF i = 0 THEN result
    ELSE LET start == Min(matches[i].start, Len(result))
             end == Min(matches[i].end, Len(result))
             cut == IF start > 0 /\ name[result[start]] \in DIVIDERS
                    THEN Cut(result, start - 1, end)
                    ELSE IF end < Len(result) /\ name[result[end + 1]] \in DIVIDERS
                    THEN Cut(result, start, end + 1)
                    ELSE Cut(result, start, end)
         IN  remove_matches(name, matches, i - 1, cut)

\* strip_task_tokens(name, task_patterns), as the positions of the
\* characters of `name` that stay
strip_task_positions(name, task_patterns) ==
    LET matches == find_task_tokens(name, task_patterns)
        all == [i \in 1..Len(name) |-> i]
    IN  IF task_patterns = <<>> \/ matches = <<>> THEN all
        ELSE strip(name, collapse(name,
                 remove_matches(name, matches, Len(matches), all)))

CharsAt(name, positions) == [i \in 1..Len(positions) |-> name[positions[i]]]

strip_task_tokens(name, task_patterns) == CharsAt(name, strip_task_positions(name, task_patterns))

\* the digits from position i (one-based) on
RECURSIVE DigitRun(_, _)
DigitRun(name, i) ==
    IF i <= Len(name) /\ name[i] \in DigitChars THEN 1 + DigitRun(name, i + 1)
    ELSE 0

\* VERSION_RE matches at the one-based position i: a divider, "v", digits
VersionAt(name, i) ==
    /\ i + 2 <= Len(name)
    /\ name[i] \in DIVIDERS
    /\ name[i + 1] = "v"
    /\ name[i + 2] \in DigitChars

\* strip_version(name): the first match is removed
strip_version(name) ==
    LET at == {i \in 1..Len(name) : VersionAt(name, i)}
        all == [i \in 1..Len(name) |-> i]
        first == CHOOSE i \in at : \A j \in at : i <= j
        result == IF at = {} THEN all
                  ELSE Cut(all, first - 1, first + 1 + DigitRun(name, first + 2))
    IN  CharsAt(name, strip(name, collapse(name, result)))

\* FRAME_EXT_RE matches from the one-based position i to the end: "." or
\* "_", n digits (3 to 8), ".", one or more word characters
FrameExtAt(name, i) ==
    /\ name[i] \in {".", "_"}
    /\ \E n \in 3..8 :
          /\ i + n + 2 <= Len(name)
          /\ \A k \in 1..n : name[i + k] \in DigitChars
          /\ name[i + n + 1] = "."
          /\ \A k \in (i + n + 2)..Len(name) : IsWord(name[k])

\* Path(filename).stem: up to the last ".", when that is neither the first
\* nor the last character
stem(filename) ==
    LET dots == {i \in 1..Len(filename) : filename[i] = "."}
        last == CHOOSE i \in dots : \A j \in dots : j <= i
    IN  IF dots = {} THEN filename
        ELSE IF last = 1 \/ last = Len(filename) THEN filename
        ELSE SubSeq(filename, 1, last - 1)

\* strip_frame_and_ext(filename)
strip_frame_and_ext(filename) ==
    LET at == {i \in 1..Len(filename) : FrameExtAt(filename, i)}
        first == CHOOSE i \in at : \A j \in at : i <= j
    IN  IF at # {} THEN SubSeq(filename, 1, first - 1)
        ELSE stem(filename)

\* derive_source_tokens(source_path_or_name, task_patterns) for a name
\* without directory
derive_source_tokens(filename, task_patterns) ==
    LET fullname == strip_frame_and_ext(filename)
        source_name == strip_version(fullname)
        stripped == strip_task_tokens(source_name, task_patterns)
    IN  [source_filename |-> filename,
         source_fullname |-> fullname,
         source_name |-> source_name,
         source_basename |-> IF stripped = <<>> THEN source_name
                             ELSE stripped]

\* names: a base, up to two task segments, versions, frame and extension
BaseNames == {<<"h", "e", "r", "o">>, <<"s", "h", ".", "0", "1", "0">>, <<"c", "o", "m", "p">>}

TaskSegments == {<<"_", "c", "o", "m", "p">>, <<"_", "x">>, <<"_", "a", "b">>, <<"_", "c", "o", "m", "p", "_", "a", "b">>}

VersionParts == {<<>>, <<"_", "v", "0", "0", "1">>, <<"_", "v", "0", "0", "1", "_", "v", "0", "0", "2">>}

Suffixes == {<<>>, <<".", "e", "x", "r">>, <<".", "1", "0", "0", "1", ".", "e", "x", "r">>}

FileNames ==
    {b \o m \o v \o x :
        b \in BaseNames,
        m \in {<<>>} \cup TaskSegments \cup {p \o q : p \in TaskSegments, q \in TaskSegments},
        v \in VersionParts,
        x \in Suffixes}

TaskLists == {<<>>, <<<<"c", "o", "m", "p">>>>, <<<<"x">>, <<"c", "o", "m", "p", "_", "%", "%">>>>, <<<<"c", "o", "m", "p">>, <<"c", "o", "m", "p", "_", "%", "%">>>>, <<<<"c", "o", "m", "p">>, <<"c", "o", "m", "p">>>>}

InitTokens ==
    /\ tree \in {{[filename |-> f, task_patterns |-> t]} : f \in FileNames, t \in TaskLists}
    /\ Quiet

\* the tokens of a filename are derived
DeriveSourceTokens ==
    /\ arg.op = "none"
    /\ \E in \in tree :
          /\ arg' = [op |-> "derive_source_tokens", name |-> in.filename,
                     task_patterns |-> in.task_patterns, again |-> FALSE]
          /\ ret' = derive_source_tokens(in.filename, in.task_patterns)
    /\ UNCHANGED <<pc, exc, clock, calls, histVars, promVars, tree, gui>>

\* and derived once more from the source_basename just computed
DeriveAgain ==
    /\ arg.op = "derive_source_tokens"
    /\ ~arg.again
    /\ arg' = [arg EXCEPT !.name = ret.source_basename, !.again = TRUE]
    /\ ret' = derive_source_tokens(ret.source_basename, arg.task_patterns)
    /\ UNCHANGED <<pc, exc, clock, calls, histVars, promVars, tree, gui>>

\* the task tokens are stripped from the source_name of the filename
StripTaskTokens ==
    /\ arg.op = "none"
    /\ \E in \in tree :
          LET name == strip_version(strip_frame_and_ext(in.filename))
          IN  /\ arg' = [op |-> "strip_task_tokens", name |-> name,
                         task_patterns |-> in.task_patterns]
              /\ ret' = [kept |-> strip_task_positions(name, in.task_patterns),
                         result |-> strip_task_tokens(name, in.task_patterns)]
    /\ UNCHANGED <<pc, exc, clock, calls, histVars, promVars, tree, gui>>

NextTokens == DeriveSourceTokens \/ DeriveAgain \/ StripTaskTokens

SpecTokens == InitTokens /\ [][NextTokens]_vars

\* C22: deriving the tokens again from a source_basename, with the same
\* task tokens, gives that source_basename back.
C22_DeriveIdempotent ==
    (arg.op = "derive_source_tokens" /\ arg.again) =>
       ret.source_basename = arg.name

\* C28: every character strip_task_tokens removes belongs to a match of a
\* token, or is a divider (the one next to a match, or a collapsed, leading
\* or trailing one).
C28_OnlyMatchesRemoved ==
    arg.op = "strip_task_tokens" =>
       \A p \in 1..Len(arg.name) :
          (\A i \in 1..Len(ret.kept) : ret.kept[i] # p) =>
             \/ arg.name[p] \in DIVIDERS
             \/ \E token \in {arg.task_patterns[k] : k \in 1..Len(arg.task_patterns)} :
                   \E start \in 0..(p - 1) :
                      /\ MatchAt(arg.name, token, start)
                      /\ p <= start + Len(token)

---------------------------------------------------------------------------
(* Two promotions record into one history file at the same time: the
   variables pc, exc, h_entry and h_data hold one value per promotion, pc
   with the position in record_promotion and the path at which the file it
   has open for writing now is *)

Procs == {1, 2}

At(label, fd) == [at |-> label, fd |-> fd]

\* f.write(...) through a descriptor opened with "w": from offset 0 over
\* what the file holds by now
Overwrite(old, new) == new \o SubSeq(old, Len(new) + 1, Len(old))

InitRace ==
    /\ \E f \in {Absent, PastRecord(1), PastRecord(2), File(<<TokOpen>>)} :
          fs = [p \in {"final", "tmp", "bak"} |->
                   IF p = "final" THEN f ELSE Absent]
    /\ cfg = [link_mode |-> "copy", template |-> "", version |-> VSmall,
              callback |-> FALSE]
    /\ target = NoFiles
    /\ tdir = TRUE
    /\ locked = {}
    /\ src_bad = {}
    /\ PromoterIdle
    /\ NoCallMade
    /\ pc = [p \in Procs |-> At("idle", "none")]
    /\ exc = [p \in Procs |-> "none"]
    /\ h_entry = [p \in Procs |-> NoEntry]
    /\ h_data = [p \in Procs |-> <<>>]
    /\ clock = MAX_HISTORY_ENTRIES + 1
    /\ calls = 0
    /\ rd_seen = [taken |-> FALSE]
    /\ prev_file = Absent
    /\ hist_before = <<>>
    /\ renamed = FALSE

\* promotion p calls record_promotion(entry)
RaceCall(p) ==
    /\ pc[p].at = "idle"
    /\ \E v \in {"v001", "v002"} :
          h_entry' = [h_entry EXCEPT ![p] = SampleEntry(v, clock, v = "v002")]
    /\ pc' = [pc EXCEPT ![p] = At("rp_load", "none")]
    /\ clock' = clock + 1
    /\ calls' = calls + 1
    /\ UNCHANGED <<fs, exc, h_data, rd_seen, prev_file, hist_before, renamed,
                   promVars, callVars>>

\* data = self.load(); history.insert(0, entry); save() builds `data`
RaceLoad(p) ==
    /\ pc[p].at = "rp_load"
    /\ LET r == load(fs["final"]) IN
          /\ fs' = FsAfterLoad(fs)
          /\ IF r.exc # "none"
             THEN /\ pc' = [pc EXCEPT ![p] = At("raised", "none")]
                  /\ exc' = [exc EXCEPT ![p] = r.exc]
                  /\ UNCHANGED h_data
             ELSE /\ pc' = [pc EXCEPT ![p] = At("save_open", "none")]
                  /\ h_data' = [h_data EXCEPT ![p] =
                        save_data(h_entry[p],
                                  insert_first(r.rec.history, h_entry[p]))]
                  /\ UNCHANGED exc
    /\ UNCHANGED <<h_entry, clock, calls, rd_seen, prev_file, hist_before,
                   renamed, promVars, callVars>>

\* open(tmp_path, "w"): the file is created, or the one there is emptied
RaceOpen(p) ==
    /\ pc[p].at = "save_open"
    /\ fs' = [fs EXCEPT ![tmp_path] = File(<<>>)]
    /\ pc' = [pc EXCEPT ![p] = At("save_write", tmp_path)]
    /\ UNCHANGED <<exc, h_entry, h_data, clock, calls, rd_seen, prev_file,
                   hist_before, renamed, promVars, callVars>>

\* json.dump(data, f) and the end of the with block: the text reaches the
\* file the descriptor is open on, wherever that file is by now
RaceWrite(p) ==
    /\ pc[p].at = "save_write"
    /\ fs' = IF pc[p].fd \in {"tmp", "final"}
             THEN [fs EXCEPT ![pc[p].fd] =
                      File(Overwrite(fs[pc[p].fd].data, h_data[p]))]
             ELSE fs
    /\ pc' = [pc EXCEPT ![p] = At("save_replace", "none")]
    /\ UNCHANGED <<exc, h_entry, h_data, clock, calls, rd_seen, prev_file,
                   hist_before, renamed, promVars, callVars>>

\* tmp_path.replace(self.path); with no file at tmp_path it raises
\* FileNotFoundError, which save() lets through
RaceReplace(p) ==
    /\ pc[p].at = "save_replace"
    /\ IF fs[tmp_path].exists
       THEN /\ fs' = [fs EXCEPT !["final"] = fs[tmp_path],
                                ![tmp_path] = Absent]
            /\ pc' = [q \in Procs |->
                         IF q = p THEN At("returned", "none")
                         ELSE IF pc[q].fd = tmp_path
                         THEN At(pc[q].at, "final")
                         ELSE IF pc[q].fd = "final"
                         THEN At(pc[q].at, "unlinked")
                         ELSE pc[q]]
            /\ UNCHANGED exc
       ELSE /\ pc' = [pc EXCEPT ![p] = At("raised", "none")]
            /\ exc' = [exc EXCEPT ![p] = "FileNotFoundError"]
            /\ UNCHANGED fs
    /\ UNCHANGED <<h_entry, h_data, clock, calls, rd_seen, prev_file,
                   hist_before, renamed, promVars, callVars>>

NextRace ==
    \E p \in Procs :
       RaceCall(p) \/ RaceLoad(p) \/ RaceOpen(p) \/ RaceWrite(p)
          \/ RaceReplace(p)

SpecRace == InitRace /\ [][NextRace]_vars

\* the record the file holds
Persisted == load(fs["final"]).rec

\* C23: with two promotions recording at once, when both are over every
\* record_promotion that returned has its entry in the persisted history,
\* and the persisted current is history[0].
C23_NoLostEntry ==
    (\A p \in Procs : pc[p].at \in {"returned", "raised"}) =>
       \A p \in Procs :
          pc[p].at = "returned" =>
             /\ \E i \in 1..Len(Persisted.history) :
                   Persisted.history[i] = h_entry[p]
             /\ Persisted.current = Persisted.history[1]

---------------------------------------------------------------------------
(* Promoter.verify() called when promote(version) has returned *)

\* abs(a - b) > 1.0
FarApart(a, b) == a - b > 1 \/ b - a > 1

\* Promoter.verify() on the record file `final` and the target directory
\* `tgt`, the source being `version`: what it returns, or the exception
\* that get_current() lets through
verify(final, tgt, dir_exists, version) ==
    LET actual_files == sorted({n \in DOMAIN tgt : n.ext \in valid_extensions})
        basic == verify_integrity(final, actual_files)
        after == FsAfterLoad([p \in {"final", "tmp", "bak"} |->
                                 IF p = "final" THEN final ELSE Absent])
        again == load(after["final"])
        current == again.rec.current
    IN  IF ~dir_exists THEN [valid |-> TRUE, message |-> "no_target_dir"]
        ELSE IF "raised" \in DOMAIN basic THEN basic
        ELSE IF ~basic.valid THEN basic
        ELSE IF again.exc # "none" THEN [raised |-> again.exc]
        ELSE IF current = NoEntry THEN basic
        ELSE IF /\ current.source_mtime # NoMtime
                /\ source_max_mtime(version) # NoMtime
                /\ source_max_mtime(version) > current.source_mtime + 1
        THEN [valid |-> FALSE, message |-> "source_modified"]
        ELSE IF /\ current.target_mtime # NoMtime
                /\ target_max_mtime(tgt) # NoMtime
                /\ FarApart(target_max_mtime(tgt), current.target_mtime)
        THEN [valid |-> FALSE, message |-> "target_modified"]
        ELSE basic

\* the caller checks the target right after a promotion that returned
VerifyAfterPromote ==
    /\ pc = "returned"
    /\ calls = 1
    /\ arg = NoCall
    /\ arg' = [op |-> "verify", file |-> fs["final"]]
    /\ ret' = verify(fs["final"], target, tdir, cfg.version)
    /\ fs' = FsAfterLoad(fs)
    /\ UNCHANGED <<pc, exc, h_entry, h_data, clock, calls, rd_seen,
                   prev_file, hist_before, renamed, promVars, tree, gui>>

NextChecked == Next \/ VerifyAfterPromote

SpecChecked == Init /\ [][NextChecked]_vars

\* C24: right after promote(version) has returned, verify() returns valid,
\* for every link mode, rename template and set of source files.
C24_ValidAfterPromote ==
    arg.op = "verify" => ("valid" \in DOMAIN ret /\ ret.valid)

---------------------------------------------------------------------------
(* _promote_sequence: the choice between _parallel_copy and the loop *)

\* a version of exactly ten frames, the largest the loop still transfers
VTen == Version("dir", 3, Frames(3, PARALLEL_OVER))

InitXfer ==
    InitPromoter(LinkModes, {""}, {VSmall, VTen, VLarge, VSingle}, {1, 3},
                 TRUE, {Absent})

SpecXfer == InitXfer /\ [][NextPar]_vars

\* the workers of _parallel_copy that are inside _copy_one
Busy == xfer.copied + Len(xfer.regs) + xfer.calling

\* the files of the version that are in the target directory
Arrived == {f \in MatchingFiles(cfg.version) : InTarget(f)}

\* C26: a directory version is transferred by the pool exactly when
\* link_mode is copy and more than 10 files match, and then at most 4
\* workers copy at any time; in every other case the files arrive one at a
\* time in sorted filename order.
C26_ParallelOnlyLargeCopy ==
    /\ pc = "p_par" =>
          /\ cfg.link_mode = "copy"
          /\ Cardinality(MatchingFiles(cfg.version)) > 10
          /\ Busy <= 4
    /\ pc = "p_seq" =>
          /\ cfg.link_mode # "copy"
                \/ Cardinality(MatchingFiles(cfg.version)) <= 10
          /\ xfer.files = source_files(cfg.version)
          /\ Arrived = {xfer.files[j] : j \in 1..xfer.i}
          /\ Busy = 0

C26_Witness ==
    /\ pc = "p_par"
    /\ Busy = 4
    /\ xfer.i < Len(xfer.files)
    /\ Cardinality(Arrived) >= 4

---------------------------------------------------------------------------
(* What promote() leaves alone in the target directory *)

\* the names promote() writes: the remapped names of the files it transfers
RemappedNames == {remap(cfg.template, f) : f \in Transferred}

\* the entries the directory held when promote() was called that are neither
\* a file with a configured extension, nor a symlink, nor a remapped name
Bystanders ==
    {n \in DOMAIN ghost.pre_target :
        /\ n.ext \notin valid_extensions
        /\ ~is_symlink(ghost.pre_target[n])
        /\ n \notin RemappedNames}

\* C27: at every point of promote(), an entry of the target directory that
\* is neither a file with a configured extension, nor a symlink, nor a
\* remapped target name is there as it was; and until record_promotion is
\* entered the history file and its siblings are as they were.
C27_BystandersKept ==
    calls = 1 =>
        /\ \A n \in Bystanders :
              n \in DOMAIN target /\ target[n] = ghost.pre_target[n]
        /\ h_entry = NoEntry =>
              fs = [p \in {"final", "tmp", "bak"} |->
                       IF p = "final" THEN ghost.pre_final ELSE Absent]

C27_Witness ==
    /\ calls = 1
    /\ pc = "returned"
    /\ Bystanders # {}
    /\ MediaNames(ghost.pre_target) \ DOMAIN target # {}
    /\ \A f \in Transferred : InTarget(f)
    /\ fs["final"] # ghost.pre_final

---------------------------------------------------------------------------
(* The worker pool of _walk_for_versions and the order its futures complete *)

\* version folders of one directory: two sequences at version 1, the same
\* number written v1, a movie, a folder removed meanwhile, one without media
PoolDirs ==
    { VersionDir("hero", <<0, 0, 1>>, "ok", {FrameFile("hero", 1001), FrameFile("hero", 1002)}),
      VersionDir("comp", <<0, 0, 1>>, "ok", {FrameFile("comp", 1001)}),
      VersionDir("hero", <<1>>, "ok", {FrameFile("hero", 1001)}),
      VersionDir("hero", <<0, 0, 2>>, "ok", {FileEntry(PathName(FALSE, "hero", <<0, 0, 2>>, <<>>, "mov"), 9)}),
      VersionDir("hero", <<0, 0, 3>>, "gone", {}),
      VersionDir("hero", <<0, 0, 4>>, "ok", {FileEntry(PathName(FALSE, "notes", <<>>, <<>>, "txt"), 1)}) }

MaxPool == 3

InitPool ==
    /\ tree \in {S \in SUBSET PoolDirs : Cardinality(S) \in 2..MaxPool}
    /\ Quiet

SpecPool == InitPool /\ [][NextDiscover]_vars

\* C25: with more than one versioned subdirectory, the versions_found of
\* the result discover() returns are ascending by version_number, and the
\* result is the same whichever order the workers complete in.
C25_SameForEveryOrder ==
    (arg.op = "discover" /\ Cardinality(tree) > 1) =>
        /\ \A i \in 1..Len(ret.results) :
              \A j, k \in 1..Len(ret.results[i].versions_found) :
                 j < k => ret.results[i].versions_found[j].version_number
                            <= ret.results[i].versions_found[k].version_number
        /\ discover(tree, arg.max_depth, FALSE)
              = discover(tree, arg.max_depth, TRUE)

---------------------------------------------------------------------------
(* The batch promotion of the main window (app.py) *)

\* a watched source of the project, as far as the batch reads it
Source(name, link_mode, latest_target) == [name |-> name, link_mode |-> link_mode, latest_target |-> latest_target]

\* the sources of the project; _promote_all_or_selected puts in the batch
\* only sources that have a latest_target
Sources ==
    {Source("a", "copy", TRUE), Source("b", "hardlink", TRUE),
     Source("c", "symlink", TRUE)}

SourceNames == <<"a", "b", "c">>

MaxBatch == 2

\* promote_list: distinct sources, in the order of the project
BatchLists ==
    {<<s>> : s \in Sources}
    \cup {l \in UNION {[1..n -> Sources] : n \in 2..MaxBatch} :
             \A i, j \in 1..Len(l) :
                i < j => RankIn(SourceNames, l[i].name)
                           < RankIn(SourceNames, l[j].name)}

\* check_link_mode_available(mode): copy always is; a hardlink or a symlink
\* is when the platform can create one
check_link_mode_available(mode, can_create) == mode = "copy" \/ can_create

\* _start_promotion: without the link mode no worker is started (for
\* symlink the user may restart the application elevated); otherwise the
\* PromoteWorker is created and started
start_promotion(g, source, in_batch, can_create, restart) ==
    IF ~check_link_mode_available(source.link_mode, can_create)
    THEN IF source.link_mode = "symlink" /\ restart
         THEN [g EXCEPT !.app = "quit"]
         ELSE g
    ELSE [g EXCEPT !.worker = [source |-> source.name, batch |-> in_batch],
                   !.attempted = IF in_batch THEN Append(@, source.name)
                                 ELSE @]

\* _batch_promote_next: past the end the list is cleared; a source without
\* promoter and without latest_target is skipped; otherwise the source
\* becomes the current one and its promotion is started
RECURSIVE batch_promote_next(_, _, _)
batch_promote_next(g, can_create, restart) ==
    IF g.batch_promote_index >= Len(g.batch_promote_list)
    THEN [g EXCEPT !.batch_promote_list = <<>>]
    ELSE LET source == g.batch_promote_list[g.batch_promote_index + 1] IN
         IF ~source.latest_target
         THEN batch_promote_next(
                  [g EXCEPT !.batch_promote_index = @ + 1], can_create,
                  restart)
         ELSE start_promotion([g EXCEPT !.current_source = source.name],
                              source, TRUE, can_create, restart)

InitBatch ==
    /\ Quiet
    /\ tree = NoTree

\* _promote_all_or_selected, confirmed: the list is set, the index is 0,
\* _batch_promote_next()
PromoteAllOrSelected ==
    /\ gui.app = "running"
    /\ gui.worker = NoWorker
    /\ \E promote_list \in BatchLists, can_create, restart \in BOOLEAN :
          gui' = batch_promote_next(
                     [gui EXCEPT !.batch_promote_list = promote_list,
                                 !.batch_promote_index = 0,
                                 !.attempted = <<>>,
                                 !.misrouted = FALSE],
                     can_create, restart)
    /\ UNCHANGED <<pc, exc, clock, calls, histVars, promVars, arg, ret, tree>>

\* _promote_selected, confirmed: _start_promotion for the current source
PromoteSelected ==
    /\ gui.app = "running"
    /\ gui.worker = NoWorker
    /\ \E source \in Sources, can_create, restart \in BOOLEAN :
          gui' = start_promotion([gui EXCEPT !.current_source = source.name],
                                 source, FALSE, can_create, restart)
    /\ UNCHANGED <<pc, exc, clock, calls, histVars, promVars, arg, ret, tree>>

\* _on_promote_finished: the worker emitted finished(entry)
OnPromoteFinished ==
    /\ gui.app = "running"
    /\ gui.worker # NoWorker
    /\ \E can_create, restart \in BOOLEAN :
          gui' = IF gui.batch_promote_list # <<>>
                 THEN batch_promote_next(
                          [gui EXCEPT !.worker = NoWorker,
                                      !.batch_promote_index = @ + 1,
                                      !.misrouted = @ \/ ~gui.worker.batch],
                          can_create, restart)
                 ELSE [gui EXCEPT !.worker = NoWorker]
    /\ UNCHANGED <<pc, exc, clock, calls, histVars, promVars, arg, ret, tree>>

\* _on_promote_error: the worker emitted error(msg); in a batch the user
\* is asked whether to continue
OnPromoteError ==
    /\ gui.app = "running"
    /\ gui.worker # NoWorker
    /\ \E continue, can_create, restart \in BOOLEAN :
          gui' = IF gui.batch_promote_list # <<>>
                 THEN IF continue
                      THEN batch_promote_next(
                               [gui EXCEPT !.worker = NoWorker,
                                           !.batch_promote_index = @ + 1,
                                           !.misrouted = @ \/ ~gui.worker.batch],
                               can_create, restart)
                      ELSE [gui EXCEPT !.worker = NoWorker,
                                       !.batch_promote_list = <<>>,
                                       !.misrouted = @ \/ ~gui.worker.batch]
                 ELSE [gui EXCEPT !.worker = NoWorker]
    /\ UNCHANGED <<pc, exc, clock, calls, histVars, promVars, arg, ret, tree>>

NextBatch ==
    \/ PromoteAllOrSelected
    \/ PromoteSelected
    \/ OnPromoteFinished
    \/ OnPromoteError

SpecBatch == InitBatch /\ [][NextBatch]_vars

\* a started worker thread ends and its signal is delivered; nothing makes
\* the user click
SpecBatchFair == SpecBatch /\ WF_vars(OnPromoteFinished \/ OnPromoteError)

BatchPending == gui.batch_promote_list # <<>>

\* the sources attempted so far are the first ones of the list, in order
InListOrder ==
    BatchPending =>
        /\ Len(gui.attempted) <= Len(gui.batch_promote_list)
        /\ \A k \in 1..Len(gui.attempted) :
              gui.attempted[k] = gui.batch_promote_list[k].name

\* C30: a batch promotion runs to an end: its entries are attempted in list
\* order, the batch list is eventually cleared, and no promotion started
\* outside the batch is handled as a step of it.
C30_BatchRunsToEnd ==
    /\ [](InListOrder /\ ~gui.misrouted)
    /\ BatchPending ~> ~BatchPending

=============================================================================
